---- MODULE Spec2Model ----
(***************************************************************************)
(* Dialogue engine of the hotel booking assistant (gadroo/indomi).         *)
(*                                                                         *)
(* Two conversation managers live in the repository:                       *)
(*   - ConversationManager (src/src/conversation/manager.py), the if-chain *)
(*     that src/src/app.py wires into the webhook;                         *)
(*   - LangGraphManager (src/src/conversation/langgraph_flow.py), the      *)
(*     graph-based draft.                                                  *)
(* A deployment constructs one of them; impl records which.  Both keep one *)
(* ConversationState per user in a dict.  The language model (classifier,  *)
(* confirmation text) and the booking service are injected collaborators:  *)
(* what they return in a turn is drawn from their interface (env).         *)
(***************************************************************************)
EXTENDS Integers, Sequences, FiniteSets, TLC

VARIABLES
    impl,       \* "manager" | "graph": the manager class that was constructed
    states,     \* self.states: user -> ConversationState, or NoState
    storage,    \* the booking service's storage: ids held, ids generated so far
    nturns,     \* handle_message calls completed so far
    last,       \* the last handle_message call: user, message, state before,
                \* storage before, classifier label, graph node entered, reply,
                \* collaborator calls
    ncalls,     \* per user: number of create / update / delete calls so far
    booked,     \* per user: the collected_data of the last successful create
    progress,   \* per user: how far the user's turns follow an end-to-end scenario
    tasks,      \* concurrent handle_message coroutines on one manager: their
                \* positions, the state objects they hold, the objects made
    probe,      \* the last call of a function of the utilities or of the
                \* booking service: its name, arguments and result
    bookings,   \* the fields of the bookings the storage holds, by id
    file,       \* the content of the reservations file on disk
    ops         \* JSONStorage coroutines in flight: their calls, their
                \* positions and the exceptions they raised

vars == <<impl, states, storage, nturns, last, ncalls, booked, progress, tasks,
          probe, bookings, file, ops>>

\* ---------------------------------------------------------------- bounds
MaxTurns == 4
MaxBookings == 2

Users == {"u1", "u2"}

\* ---------------------------------------------------------------- values
None == "None"
NoId == 0
NoState == [absent |-> TRUE]

\* SystemPrompts.INTENT_CLASSIFIER: the labels the classifier is asked for
Labels == {"booking", "rescheduling", "cancellation", "inquiry", "confirmation"}

\* HOTEL_CONFIG["room_types"], in dict order: key, lower-cased display name
ROOM_TYPES ==
    << [key |-> "standard",     name |-> {"standard", "room"}],
       [key |-> "deluxe",       name |-> {"deluxe", "room"}],
       [key |-> "suite",        name |-> {"executive", "suite"}],
       [key |-> "presidential", name |-> {"presidential", "suite"}] >>

\* A message text, as the features the code reads from it:
\*   dates: the date tokens the patterns of DateParser.extract_dates find,
\*          as day offsets from today, in the order they are collected;
\*   words: the lower-cased catalog words the text contains;
\*   email: the text holds a name and an email-shaped token;
\*   bid:   the booking id the text spells out (NoId when none).
Msg(d, w, e, b) == [dates |-> d, words |-> w, email |-> e, bid |-> b]

Msgs ==
    { Msg(<<>>, {}, FALSE, NoId),                     \* "I want to book a room"
      Msg(<<3, 1>>, {}, FALSE, NoId),                 \* two dates, a valid range
      Msg(<<1>>, {}, FALSE, NoId),                    \* "tomorrow"
      Msg(<<1, 40>>, {}, FALSE, NoId),                \* a stay of 39 nights
      Msg(<<>>, {"standard"}, FALSE, NoId),           \* "standard"
      Msg(<<>>, {"presidential", "suite"}, FALSE, NoId), \* "Presidential Suite"
      Msg(<<>>, {}, TRUE, NoId),                      \* "Jane Doe jane@example.com"
      Msg(<<>>, {}, FALSE, 1) }                       \* the id of booking 1

\* What the collaborators return in one turn:
\*   label: the classifier's label, or "RAISE" (the call failed, or its
\*          result has no "intent" field);
\*   svc:   the booking service's create/update: "ok", "ValueError" (a
\*          validation error), "Exception" (any other failure), "llm_raise"
\*          (the service call succeeded and the language-model call that
\*          writes the confirmation text failed);
\*   stop:  the branch taken at an edge of the graph whose conditions are
\*          not exclusive.
Envs == [label : Labels \cup {"RAISE"},
         svc : {"ok", "ValueError", "Exception", "llm_raise"},
         stop : BOOLEAN]

\* ---------------------------------------------------------------- replies
R_ASK_DATES    == "When would you like to check in and check out?"
R_ASK_ROOM     == "What type of room would you prefer? Available options:"
R_ASK_GUEST    == "Please provide your name and email for the booking."
R_ASK_ID_RESCH == "Please provide your booking ID to reschedule."
R_ASK_ID_CANC  == "Please provide your booking ID to cancel."
R_ASK_NEWDATES == "What dates would you like to reschedule to?"
R_NOT_FOUND    == "Booking not found."
R_CONFIRMATION == "confirmation"
R_ERR_CREATE   == "Error creating booking:"
R_ERR_RESCH    == "Error rescheduling booking:"
R_CANCELLED    == "Your booking has been cancelled successfully."
R_ERR_CANCEL   == "Error cancelling your booking. Please try again."
R_ANSWER       == "answer"
R_REPHRASE     == "I'm not sure how to help with that. Could you please rephrase?"
R_BAD_DATES    == "I couldn't use those dates:"
R_NO_DATES     == "I couldn't understand the dates."
R_BAD_ROOM     == "I didn't catch that. Please choose from these room types:"
R_ASK_NEWDATES_FMT == "What dates would you like to reschedule to? Please provide dates in a format"
R_APOLOGY      == "I apologize, but I couldn't process your request. Please try again."
EXCEPTION      == "EXCEPTION"

Reply(text, ref) == [text |-> text, ref |-> ref]

\* ---------------------------------------------------------------- DateParser
MaxStay == 30
MaxAdvance == 365

Min(S) == CHOOSE x \in S : \A y \in S : x <= y

Elems(s) == {s[i] : i \in 1..Len(s)}

\* s without its first occurrence of x
RemoveOne(s, x) ==
    LET i == CHOOSE k \in 1..Len(s) : s[k] = x /\ \A j \in 1..(k - 1) : s[j] # x
    IN  [k \in 1..(Len(s) - 1) |-> IF k < i THEN s[k] ELSE s[k + 1]]

\* DateParser.extract_dates, after the patterns collected `dates`:
\* two or more dates are sorted and the first two returned, else None.
\* An Optional is a sequence of length at most one: << >> is None.
extract_dates(dates) ==
    IF Len(dates) >= 2
    THEN LET ci == Min(Elems(dates))
         IN  << [check_in |-> ci, check_out |-> Min(Elems(RemoveOne(dates, ci)))] >>
    ELSE << >>

\* ------------------------------------------------- extract_dates on a text
\* A text is the sequence of its fragments that some date pattern matches.
\* A fragment is a record with its format `fmt`:
\*   "slash"     DD/MM/YYYY          (pattern 1), denoting day `day`
\*   "iso"       YYYY-MM-DD          (pattern 2), denoting day `day`; pattern 1
\*               matches its tail YY-MM-DD too, which dateutil reads as
\*               day-month-year: the date `alias`
\*   "month"     Month DD, YYYY      (pattern 3)
\*   "dmy"       DD Month YYYY       (pattern 4)
\*   "relative"  tomorrow, next week (pattern 5)
\*   "from_now"  N days from now     (pattern 6), `day` being N
\*   "junk"      words and digits pattern 3 matches that parse() refuses
\* Days are counted from today = day 0.
NPatterns == 6

\* The last day a date can hold, date.max, counted from today
DateMaxDay == 2912135

\* What the body of the loop does with one match: append a date, or raise
Appended(d) == [kind |-> "date", day |-> d]

Raises(e) == [kind |-> e]

\* The matches pattern p finds in one fragment, each with its outcome
Matches(tok, p) ==
    IF tok.fmt = "slash" /\ p = 1 THEN << Appended(tok.day) >>
    ELSE IF tok.fmt = "iso" /\ p = 1 THEN << Appended(tok.alias) >>
    ELSE IF tok.fmt = "iso" /\ p = 2 THEN << Appended(tok.day) >>
    ELSE IF tok.fmt = "month" /\ p = 3 THEN << Appended(tok.day) >>
    ELSE IF tok.fmt = "junk" /\ p = 3 THEN << Raises("ValueError") >>
    ELSE IF tok.fmt = "dmy" /\ p = 4 THEN << Appended(tok.day) >>
    ELSE IF tok.fmt = "relative" /\ p = 5 THEN << Appended(tok.day) >>
    ELSE IF tok.fmt = "from_now" /\ p = 6
    THEN IF tok.day > DateMaxDay THEN << Raises("OverflowError") >>
         ELSE << Appended(tok.day) >>
    ELSE << >>

\* re.finditer(pattern, text): the matches of pattern p from fragment i on
RECURSIVE finditer(_, _, _)
finditer(text, p, i) ==
    IF i > Len(text) THEN << >>
    ELSE Matches(text[i], p) \o finditer(text, p, i + 1)

\* The two loops: every pattern in turn, every match of it in text order
RECURSIVE all_matches(_, _)
all_matches(text, p) ==
    IF p > NPatterns THEN << >>
    ELSE finditer(text, p, 1) \o all_matches(text, p + 1)

IsDate(o) == o.kind = "date"

\* DateParser.extract_dates(text): ValueError and TypeError skip the match,
\* any other exception leaves the function; `value` is the Optional returned
extract_dates_text(text) ==
    LET ms == all_matches(text, 1)
    IN  IF \E i \in 1..Len(ms) : ms[i].kind \notin {"date", "ValueError", "TypeError"}
        THEN LET i == CHOOSE k \in 1..Len(ms) :
                          /\ ms[k].kind \notin {"date", "ValueError", "TypeError"}
                          /\ \A j \in 1..(k - 1) :
                                ms[j].kind \in {"date", "ValueError", "TypeError"}
             IN  [raised |-> ms[i].kind, value |-> << >>]
        ELSE LET ds == SelectSeq(ms, IsDate)
             IN  [raised |-> "",
                  value |-> extract_dates([k \in 1..Len(ds) |-> ds[k].day])]

\* is_valid_date_range without its maximum-stay test
is_valid_date_range_no_max(check_in, check_out) ==
    IF check_in < 0 THEN FALSE
    ELSE IF check_out <= check_in THEN FALSE
    ELSE IF check_in > MaxAdvance THEN FALSE
    ELSE TRUE

\* is_valid_date_range refusing the last day of the advance window too
is_valid_date_range_short(check_in, check_out) ==
    IF check_in < 0 THEN FALSE
    ELSE IF check_out <= check_in THEN FALSE
    ELSE IF check_out - check_in > MaxStay THEN FALSE
    ELSE IF check_in >= MaxAdvance THEN FALSE
    ELSE TRUE

\* DateParser.is_valid_date_range, today being day 0
is_valid_date_range(check_in, check_out) ==
    IF check_in < 0 THEN FALSE
    ELSE IF check_out <= check_in THEN FALSE
    ELSE IF check_out - check_in > MaxStay THEN FALSE
    ELSE IF check_in > MaxAdvance THEN FALSE
    ELSE TRUE

\* DateParser.is_valid_date_range: the error message it returns
date_range_error(check_in, check_out) ==
    IF check_in < 0 THEN "Check-in date cannot be in the past"
    ELSE IF check_out <= check_in THEN "Check-out date must be after check-in date"
    ELSE IF check_out - check_in > MaxStay THEN "Maximum stay duration is 30 days"
    ELSE IF check_in > MaxAdvance
    THEN "Bookings can only be made up to 1 year in advance"
    ELSE ""

\* ---------------------------------------------------------------- state_management
\* A datetime is a count of clock ticks, TicksPerDay of them to a day, the
\* tick 0 being the midnight that began today
TicksPerDay == 2

DateOf(dt) == dt \div TicksPerDay

\* state_management.validate_dates, with datetime.now() = now: the error
\* message it returns, "" with True
validate_dates(check_in, check_out, now) ==
    IF check_in >= check_out THEN "Check-out date must be after check-in date"
    ELSE IF check_in < now THEN "Check-in date cannot be in the past"
    ELSE ""

\* No function was called yet
NoProbe == [fn |-> "none"]

\* A file holding a list of no items
NoFile == [valid |-> TRUE, reservations |-> << >>]

\* ---------------------------------------------------------------- state
\* collected_data: a dict, modelled as a function on the keys it holds
EmptyData == [s \in {} |-> None]

Put(data, k, v) == [s \in DOMAIN data \cup {k} |-> IF s = k THEN v ELSE data[s]]

\* ConversationState(user_id=...) / ConversationState(): the field defaults
NewState ==
    [current_intent |-> None, current_booking_id |-> NoId,
     collected_data |-> EmptyData, error |-> None]

\* self.states = {}
EmptyStates == [u \in Users |-> NoState]

\* get_state: the user's state, created on first contact
get_state(sts, u) == IF sts[u] = NoState THEN NewState ELSE sts[u]

\* The outcome of a handler: the state it leaves, the storage, the reply
\* (text EXCEPTION: the call raised), and the collaborator calls it made.
Out(st, stor, reply, calls) ==
    [state |-> st, storage |-> stor, reply |-> reply, calls |-> calls]

\* One call of a collaborator: the operation, the booking id it names or
\* returns, and the dates it carries (an Optional).
Call(op, id, dates) == [op |-> op, id |-> id, dates |-> dates]

Raised == Reply(EXCEPTION, NoId)

\* ---------------------------------------------------------------- booking service
\* BookingService.create seen from the engine: a booking with a fresh id is
\* stored and returned (r.ok), or the call raises and stores nothing.
svc_create(stor, env) ==
    IF env.svc \in {"ok", "llm_raise"}
    THEN [ok |-> TRUE, id |-> stor.issued + 1,
          storage |-> [ids |-> stor.ids \cup {stor.issued + 1},
                       issued |-> stor.issued + 1]]
    ELSE [ok |-> FALSE, id |-> NoId, storage |-> stor]

\* BookingService.get: the booking, or None
svc_get(stor, id) == id \in stor.ids

\* BookingService.delete / JSONStorage.delete: True exactly when the id was held
svc_delete(stor, id) ==
    [ok |-> id \in stor.ids,
     storage |-> [ids |-> stor.ids \ {id}, issued |-> stor.issued]]

\* ---------------------------------------------------------------- BookingService
\* The service on the fields of the bookings.  A date handed to validate is
\* an ISO string, or a datetime object (what booking.dict() holds), of tick t.
IsoStr(t) == [str |-> TRUE, t |-> t]

DateTime(t) == [str |-> FALSE, t |-> t]

Unchanged(stor, bks, e) == [raised |-> e, id |-> NoId, storage |-> stor, bookings |-> bks]

\* (check_out - check_in).days
Days(check_in, check_out) == (check_out - check_in) \div TicksPerDay

\* BookingService.validate(data): the exception it raises, "" when it
\* returns.  data: check_in_date, check_out_date and room are Optionals,
\* email says that data["guest"]["email"] is there and not empty.
BookingService_validate(data) ==
    IF data.check_in_date = << >> THEN "KeyError"
    ELSE IF ~data.check_in_date[1].str THEN "TypeError"
    ELSE IF data.check_out_date = << >> THEN "KeyError"
    ELSE IF ~data.check_out_date[1].str THEN "TypeError"
    ELSE IF data.check_out_date[1].t <= data.check_in_date[1].t
    THEN "ValueError: Check-out date must be after check-in date"
    ELSE IF ~data.email THEN "ValueError: Guest email is required"
    ELSE IF data.room = << >> \/ data.room[1].num_adults < 1
    THEN "ValueError: At least one adult guest is required"
    ELSE ""

\* Booking.check_dates, the validator the Booking constructor runs
check_dates(check_in_date, check_out_date) ==
    IF check_out_date <= check_in_date
    THEN "ValueError: Check-out date must be after check-in date"
    ELSE ""

\* datetime.now(), on a clock that ticks with every booking issued
Now(stor) == stor.issued

\* BookingStatus(): the defaults of a new status
BookingStatus(now) ==
    [is_confirmed |-> FALSE, is_paid |-> FALSE, payment_status |-> "pending",
     check_in_status |-> "pending", last_updated |-> now]

\* The Booking that create and update construct from validated data, with
\* the status and the created_at given or defaulted
Booking(validated_data, status, created_at) ==
    LET ci == validated_data.check_in_date[1].t
        co == validated_data.check_out_date[1].t
        room == validated_data.room[1]
    IN  [check_in_date |-> ci, check_out_date |-> co, rate |-> room.rate,
         num_adults |-> room.num_adults,
         total_amount |-> room.rate * Days(ci, co),
         status |-> status, created_at |-> created_at]

\* create storing the booking without validate and without the model's
\* validator
BookingService_create_unvalidated(stor, bks, data, out) ==
    IF data.check_in_date = << >> \/ data.check_out_date = << >> \/ data.room = << >>
    THEN Unchanged(stor, bks, "KeyError")
    ELSE IF out # "ok" THEN Unchanged(stor, bks, out)
    ELSE LET id == stor.issued + 1
         IN  [raised |-> "", id |-> id,
              storage |-> [ids |-> stor.ids \cup {id}, issued |-> id],
              bookings |-> [k \in DOMAIN bks \cup {id} |->
                               IF k = id
                               THEN Booking(data, BookingStatus(Now(stor)),
                                            Now(stor))
                               ELSE bks[k]]]

\* BookingService.create(data); out is what storage.create does: "ok", or
\* the exception it raises
BookingService_create(stor, bks, data, out) ==
    LET e == BookingService_validate(data)
    IN  IF e # "" THEN Unchanged(stor, bks, e)
        ELSE LET booking == Booking(data, BookingStatus(Now(stor)), Now(stor))
                 v == check_dates(booking.check_in_date, booking.check_out_date)
                 id == stor.issued + 1
             IN  IF v # "" THEN Unchanged(stor, bks, v)
                 ELSE IF out # "ok" THEN Unchanged(stor, bks, out)
                 ELSE [raised |-> "", id |-> id,
                       storage |-> [ids |-> stor.ids \cup {id}, issued |-> id],
                       bookings |-> [k \in DOMAIN bks \cup {id} |->
                                        IF k = id THEN booking ELSE bks[k]]]

\* {**booking.dict(), **data}: the keys of data replace the booking's
Merged(booking, data) ==
    [check_in_date |-> IF data.check_in_date # << >> THEN data.check_in_date
                       ELSE << DateTime(booking.check_in_date) >>,
     check_out_date |-> IF data.check_out_date # << >> THEN data.check_out_date
                        ELSE << DateTime(booking.check_out_date) >>,
     email |-> TRUE,
     room |-> IF data.room # << >> THEN data.room
              ELSE << [rate |-> booking.rate, num_adults |-> booking.num_adults] >>]

\* update leaving total_amount as the booking had it
BookingService_update_keeps_total(stor, bks, id, data, out) ==
    IF id \notin stor.ids THEN Unchanged(stor, bks, "ValueError: Booking not found")
    ELSE LET validated_data == Merged(bks[id], data)
             e == BookingService_validate(validated_data)
         IN  IF e # "" THEN Unchanged(stor, bks, e)
             ELSE IF out # "ok" THEN Unchanged(stor, bks, out)
             ELSE [raised |-> "", id |-> id, storage |-> stor,
                   bookings |-> [bks EXCEPT ![id] =
                       [Booking(validated_data, bks[id].status,
                                bks[id].created_at) EXCEPT
                           !.total_amount = bks[id].total_amount]]]

\* update constructing the booking with the defaults of a new one
BookingService_update_as_new(stor, bks, id, data, out) ==
    IF id \notin stor.ids THEN Unchanged(stor, bks, "ValueError: Booking not found")
    ELSE LET validated_data == Merged(bks[id], data)
             e == BookingService_validate(validated_data)
         IN  IF e # "" THEN Unchanged(stor, bks, e)
             ELSE IF out # "ok" THEN Unchanged(stor, bks, out)
             ELSE [raised |-> "", id |-> id, storage |-> stor,
                   bookings |-> [bks EXCEPT ![id] =
                       Booking(validated_data, BookingStatus(Now(stor)),
                               Now(stor))]]

\* BookingService.update(id, data); out is what storage.update does
BookingService_update(stor, bks, id, data, out) ==
    IF id \notin stor.ids THEN Unchanged(stor, bks, "ValueError: Booking not found")
    ELSE LET validated_data == Merged(bks[id], data)
             e == BookingService_validate(validated_data)
         IN  IF e # "" THEN Unchanged(stor, bks, e)
             ELSE LET updated_booking == Booking(validated_data, bks[id].status,
                                                 bks[id].created_at)
                      v == check_dates(updated_booking.check_in_date,
                                       updated_booking.check_out_date)
                  IN  IF v # "" THEN Unchanged(stor, bks, v)
                      ELSE IF out # "ok" THEN Unchanged(stor, bks, out)
                      ELSE [raised |-> "", id |-> id, storage |-> stor,
                            bookings |-> [bks EXCEPT ![id] = updated_booking]]

\* ---------------------------------------------------------------- ReservationStorage
\* data_storage.py keeps {"reservations": [...]} in one JSON file.  A
\* reservation is a record of booking_id, room_type, check_in_date,
\* check_out_date, num_adults and status; a date is IsoStr(t) or, when the
\* caller passed a datetime object, DateTime(t).  The timestamps
\* (created_at, updated_at, last_updated) are left out.

\* json.dump can write the value
Serializable(r) == r.check_in_date.str /\ r.check_out_date.str

\* _load_data: the list of the file, an empty one when the file does not
\* decode
_load_data(f) == IF f.valid THEN f.reservations ELSE << >>

\* _save_data(data): open(.., 'w') truncates the file, json.dump writes the
\* encoding piece by piece and raises TypeError at the first value it cannot
\* encode, leaving a file that does not decode
_save_data(reservations) ==
    IF \A i \in 1..Len(reservations) : Serializable(reservations[i])
    THEN [raised |-> "", file |-> [valid |-> TRUE, reservations |-> reservations]]
    ELSE [raised |-> "TypeError", file |-> [valid |-> FALSE, reservations |-> << >>]]

\* create_reservation(booking_details), booking_id being the uuid4 drawn
create_reservation(f, booking_details, booking_id) ==
    LET data == _load_data(f)
        r == [booking_id |-> booking_id,
              room_type |-> booking_details.room_type,
              check_in_date |-> booking_details.check_in_date,
              check_out_date |-> booking_details.check_out_date,
              num_adults |-> booking_details.num_adults,
              status |-> "confirmed"]
        w == _save_data(Append(data, r))
    IN  [raised |-> w.raised, file |-> w.file,
         result |-> IF w.raised = "" THEN booking_id ELSE NoId]

\* get_reservation: an Optional
get_reservation(f, booking_id) ==
    LET data == _load_data(f)
        hits == {i \in 1..Len(data) : data[i].booking_id = booking_id}
    IN  IF hits = {} THEN << >> ELSE << data[Min(hits)] >>

\* reservation.update(updates): updates holds an Optional per field
Updated(r, updates) ==
    [r EXCEPT !.room_type = IF updates.room_type # << >>
                            THEN updates.room_type[1] ELSE @,
              !.check_out_date = IF updates.check_out_date # << >>
                                 THEN updates.check_out_date[1] ELSE @,
              !.num_adults = IF updates.num_adults # << >>
                             THEN updates.num_adults[1] ELSE @]

\* update_reservation(booking_id, updates): the first reservation with the id
update_reservation(f, booking_id, updates) ==
    LET data == _load_data(f)
        hits == {i \in 1..Len(data) : data[i].booking_id = booking_id}
    IN  IF hits = {} THEN [raised |-> "", file |-> f, result |-> FALSE]
        ELSE LET w == _save_data([data EXCEPT ![Min(hits)] = Updated(@, updates)])
             IN  [raised |-> w.raised, file |-> w.file, result |-> w.raised = ""]

KeepIds(data, booking_id) ==
    LET Keep(r) == r.booking_id # booking_id IN SelectSeq(data, Keep)

\* delete_reservation writing the file on every call
delete_reservation_always_writes(f, booking_id) ==
    LET data == _load_data(f)
        kept == KeepIds(data, booking_id)
    IN  [raised |-> "", file |-> _save_data(kept).file, wrote |-> TRUE,
         result |-> Len(kept) < Len(data)]

\* delete_reservation(booking_id)
delete_reservation(f, booking_id) ==
    LET data == _load_data(f)
        kept == KeepIds(data, booking_id)
    IN  IF Len(kept) < Len(data)
        THEN [raised |-> "", file |-> _save_data(kept).file, wrote |-> TRUE,
              result |-> TRUE]
        ELSE [raised |-> "", file |-> f, wrote |-> FALSE, result |-> FALSE]

\* check_availability treating a stay that touches another as overlapping
check_availability_closed(f, check_in, check_out, room_type) ==
    LET data == _load_data(f)
    IN  ~ \E i \in 1..Len(data) :
            /\ data[i].room_type = room_type
            /\ data[i].check_in_date.t <= check_out
            /\ data[i].check_out_date.t >= check_in

\* check_availability(check_in, check_out, room_type), datetimes as ticks
check_availability(f, check_in, check_out, room_type) ==
    LET data == _load_data(f)
    IN  ~ \E i \in 1..Len(data) :
            /\ data[i].room_type = room_type
            /\ data[i].check_in_date.t < check_out
            /\ data[i].check_out_date.t > check_in

\* ---------------------------------------------------------------- JSONStorage
\* storage/json_storage.py keeps a JSON list of item dicts in one file.  An
\* item dict has the fields of a Booking; its id is IdStr(k), the string of
\* a UUID, or UUIDObj(k), the UUID object that item.dict() holds, and its
\* dates are IsoStr(t) or DateTime(t) likewise.
IdStr(k) == [str |-> TRUE, k |-> k]

UUIDObj(k) == [str |-> FALSE, k |-> k]

\* json.dumps can encode the item dict
JsonNative(item_dict) ==
    item_dict.id.str /\ item_dict.check_in_date.str /\ item_dict.check_out_date.str

\* item.dict() of a Booking: the id and the datetimes stay objects
BookingDict(b) ==
    [id |-> UUIDObj(b.id), check_in_date |-> DateTime(b.check_in_date),
     check_out_date |-> DateTime(b.check_out_date), rate |-> b.rate,
     num_adults |-> b.num_adults, total_amount |-> b.total_amount,
     status |-> b.status, created_at |-> b.created_at]

\* Booking.parse_obj(item) of an item read from the file
parse_obj(item) ==
    [id |-> item.id.k, check_in_date |-> item.check_in_date.t,
     check_out_date |-> item.check_out_date.t, rate |-> item.rate,
     num_adults |-> item.num_adults, total_amount |-> item.total_amount,
     status |-> item.status, created_at |-> item.created_at]

\* _write_data(data): json.dumps(data) is evaluated before write_text, so a
\* TypeError leaves the file as it was
_write_data(f, data) ==
    IF \A i \in 1..Len(data) : JsonNative(data[i])
    THEN [raised |-> "", file |-> [valid |-> TRUE, reservations |-> data]]
    ELSE [raised |-> "TypeError", file |-> f]

\* The places of the items with item["id"] == str(id)
IdHits(data, id) == {i \in 1..Len(data) : data[i].id = IdStr(id)}

\* JSONStorage.create(item)
JSONStorage_create(f, item) ==
    _write_data(f, Append(f.reservations, BookingDict(item)))

\* JSONStorage.get(id): an Optional
JSONStorage_get(f, id) ==
    LET hits == IdHits(f.reservations, id)
    IN  IF hits = {} THEN << >> ELSE << parse_obj(f.reservations[Min(hits)]) >>

\* JSONStorage.update(id, item)
JSONStorage_update(f, id, item) ==
    LET hits == IdHits(f.reservations, id)
    IN  IF hits = {} THEN [raised |-> "ValueError: Item not found", file |-> f]
        ELSE _write_data(f, [f.reservations EXCEPT ![Min(hits)] = BookingDict(item)])

\* JSONStorage.delete dropping the first item when the id is not there
JSONStorage_delete_first(f, id) ==
    LET data == f.reservations
        Keep(item) == item.id # IdStr(id)
        kept == IF IdHits(data, id) = {} /\ data # << >> THEN Tail(data)
                ELSE SelectSeq(data, Keep)
    IN  IF Len(kept) < Len(data)
        THEN [raised |-> "", file |-> _write_data(f, kept).file, wrote |-> TRUE,
              result |-> TRUE]
        ELSE [raised |-> "", file |-> f, wrote |-> FALSE, result |-> FALSE]

\* JSONStorage.delete(id)
JSONStorage_delete(f, id) ==
    LET data == f.reservations
        Keep(item) == item.id # IdStr(id)
        kept == SelectSeq(data, Keep)
    IN  IF Len(kept) < Len(data)
        THEN [raised |-> "", file |-> _write_data(f, kept).file, wrote |-> TRUE,
              result |-> TRUE]
        ELSE [raised |-> "", file |-> f, wrote |-> FALSE, result |-> FALSE]

\* ---------------------------------------------------------------- ConversationManager
\* _handle_booking resetting current_intent after a successful create, the
\* booking reference and the slots staying as lines 103-105 leave them
_handle_booking_resets(st, m, env, stor, calls) ==
    IF DOMAIN st.collected_data = {}
    THEN Out(st, stor, Reply(R_ASK_DATES, NoId), calls)
    ELSE IF "room_type" \notin DOMAIN st.collected_data
    THEN Out(st, stor, Reply(R_ASK_ROOM, NoId), calls)
    ELSE IF "guest" \notin DOMAIN st.collected_data
    THEN Out(st, stor, Reply(R_ASK_GUEST, NoId), calls)
    ELSE LET r == svc_create(stor, env)
             c == Append(calls, Call("create", r.id, << >>))
         IN  IF r.ok
             THEN LET st1 == [st EXCEPT !.current_booking_id = r.id,
                                        !.current_intent = None]
                  IN  IF env.svc = "ok"
                      THEN Out(st1, r.storage, Reply(R_CONFIRMATION, r.id),
                               Append(c, Call("llm", r.id, << >>)))
                      ELSE Out(st1, r.storage, Raised,
                               Append(c, Call("llm", r.id, << >>)))
             ELSE IF env.svc = "ValueError"
             THEN Out(st, stor, Reply(R_ERR_CREATE, NoId), c)
             ELSE Out(st, stor, Raised, c)

\* _handle_booking asking for the guest before the room type
_handle_booking_guest_first(st, m, env, stor, calls) ==
    IF DOMAIN st.collected_data = {}
    THEN Out(st, stor, Reply(R_ASK_DATES, NoId), calls)
    ELSE IF "guest" \notin DOMAIN st.collected_data
    THEN Out(st, stor, Reply(R_ASK_GUEST, NoId), calls)
    ELSE IF "room_type" \notin DOMAIN st.collected_data
    THEN Out(st, stor, Reply(R_ASK_ROOM, NoId), calls)
    ELSE LET r == svc_create(stor, env)
             c == Append(calls, Call("create", r.id, << >>))
         IN  IF r.ok
             THEN LET st1 == [st EXCEPT !.current_booking_id = r.id]
                  IN  IF env.svc = "ok"
                      THEN Out(st1, r.storage, Reply(R_CONFIRMATION, r.id),
                               Append(c, Call("llm", r.id, << >>)))
                      ELSE Out(st1, r.storage, Raised,
                               Append(c, Call("llm", r.id, << >>)))
             ELSE IF env.svc = "ValueError"
             THEN Out(st, stor, Reply(R_ERR_CREATE, NoId), c)
             ELSE Out(st, stor, Raised, c)

\* ConversationManager._handle_booking
_handle_booking(st, m, env, stor, calls) ==
    IF DOMAIN st.collected_data = {}
    THEN Out(st, stor, Reply(R_ASK_DATES, NoId), calls)
    ELSE IF "room_type" \notin DOMAIN st.collected_data
    THEN Out(st, stor, Reply(R_ASK_ROOM, NoId), calls)
    ELSE IF "guest" \notin DOMAIN st.collected_data
    THEN Out(st, stor, Reply(R_ASK_GUEST, NoId), calls)
    ELSE LET r == svc_create(stor, env)
             c == Append(calls, Call("create", r.id, << >>))
         IN  IF r.ok
             THEN LET st1 == [st EXCEPT !.current_booking_id = r.id]
                  IN  IF env.svc = "ok"
                      THEN Out(st1, r.storage, Reply(R_CONFIRMATION, r.id),
                               Append(c, Call("llm", r.id, << >>)))
                      ELSE Out(st1, r.storage, Raised,
                               Append(c, Call("llm", r.id, << >>)))
             ELSE IF env.svc = "ValueError"
             THEN Out(st, stor, Reply(R_ERR_CREATE, NoId), c)
             ELSE Out(st, stor, Raised, c)

\* ConversationManager._handle_rescheduling
_handle_rescheduling(st, m, env, stor, calls) ==
    IF st.current_booking_id = NoId
    THEN Out(st, stor, Reply(R_ASK_ID_RESCH, NoId), calls)
    ELSE LET id == st.current_booking_id
             c1 == Append(calls, Call("get", id, << >>))
         IN  IF ~svc_get(stor, id)
             THEN Out(st, stor, Reply(R_NOT_FOUND, id), c1)
             ELSE IF "new_dates" \notin DOMAIN st.collected_data
             THEN Out(st, stor, Reply(R_ASK_NEWDATES, NoId), c1)
             ELSE LET c2 == Append(c1, Call("update", id,
                                            << st.collected_data["new_dates"] >>))
                  IN  IF env.svc = "ok"
                      THEN Out(st, stor, Reply(R_CONFIRMATION, id),
                               Append(c2, Call("llm", id, << >>)))
                      ELSE IF env.svc = "llm_raise"
                      THEN Out(st, stor, Raised, Append(c2, Call("llm", id, << >>)))
                      ELSE IF env.svc = "ValueError"
                      THEN Out(st, stor, Reply(R_ERR_RESCH, NoId), c2)
                      ELSE Out(st, stor, Raised, c2)

\* _handle_cancellation without its test of current_booking_id
_handle_cancellation_unchecked(st, m, env, stor, calls) ==
    LET id == st.current_booking_id
        c1 == Append(calls, Call("get", id, << >>))
    IN  IF ~svc_get(stor, id)
        THEN Out(st, stor, Reply(R_NOT_FOUND, id), c1)
        ELSE LET c2 == Append(c1, Call("delete", id, << >>))
                 r == svc_delete(stor, id)
             IN  IF env.svc = "Exception"
                 THEN Out(st, stor, Raised, c2)
                 ELSE IF r.ok
                 THEN Out(st, r.storage, Reply(R_CANCELLED, NoId), c2)
                 ELSE Out(st, r.storage, Reply(R_ERR_CANCEL, NoId), c2)

\* ConversationManager._handle_cancellation
_handle_cancellation(st, m, env, stor, calls) ==
    IF st.current_booking_id = NoId
    THEN Out(st, stor, Reply(R_ASK_ID_CANC, NoId), calls)
    ELSE LET id == st.current_booking_id
             c1 == Append(calls, Call("get", id, << >>))
         IN  IF ~svc_get(stor, id)
             THEN Out(st, stor, Reply(R_NOT_FOUND, id), c1)
             ELSE LET c2 == Append(c1, Call("delete", id, << >>))
                      r == svc_delete(stor, id)
                  IN  IF env.svc = "Exception"
                      THEN Out(st, stor, Raised, c2)
                      ELSE IF r.ok
                      THEN Out(st, r.storage, Reply(R_CANCELLED, NoId), c2)
                      ELSE Out(st, r.storage, Reply(R_ERR_CANCEL, NoId), c2)

\* ConversationManager._handle_inquiry
_handle_inquiry(st, m, env, stor, calls) ==
    LET c == Append(calls, Call("llm", NoId, << >>))
    IN  IF env.svc \in {"llm_raise", "Exception"}
        THEN Out(st, stor, Raised, c)
        ELSE Out(st, stor, Reply(R_ANSWER, NoId), c)

\* dispatch sending the rescheduling intent to the cancellation handler
dispatch_crossed(st, m, env, stor, calls) ==
    IF st.current_intent = "booking" THEN _handle_booking(st, m, env, stor, calls)
    ELSE IF st.current_intent \in {"rescheduling", "cancellation"}
    THEN _handle_cancellation(st, m, env, stor, calls)
    ELSE IF st.current_intent = "inquiry" THEN _handle_inquiry(st, m, env, stor, calls)
    ELSE Out(st, stor, Reply(R_REPHRASE, NoId), calls)

\* ConversationManager.handle_message, lines 69-79: dispatch on current_intent
dispatch(st, m, env, stor, calls) ==
    IF st.current_intent = "booking" THEN _handle_booking(st, m, env, stor, calls)
    ELSE IF st.current_intent = "rescheduling"
    THEN _handle_rescheduling(st, m, env, stor, calls)
    ELSE IF st.current_intent = "cancellation"
    THEN _handle_cancellation(st, m, env, stor, calls)
    ELSE IF st.current_intent = "inquiry" THEN _handle_inquiry(st, m, env, stor, calls)
    ELSE Out(st, stor, Reply(R_REPHRASE, NoId), calls)

\* ConversationManager.handle_message, lines 59-79: from the await of
\* detect_intent on, once the test of line 58 found no current intent
after_detect(st, m, env, stor) ==
    LET c == << Call("classify", NoId, << >>) >>
    IN  IF env.label = "RAISE"
        THEN Out(st, stor, Raised, c)
        ELSE LET st1 == [st EXCEPT !.current_intent = env.label]
                 st2 == IF env.label = "booking"
                        THEN [st1 EXCEPT !.collected_data = EmptyData]
                        ELSE st1
             IN  IF env.label = "rescheduling" /\ st2.current_booking_id = NoId
                 THEN Out(st2, stor, Reply(R_ASK_ID_RESCH, NoId), c)
                 ELSE dispatch(st2, m, env, stor, c)

\* ConversationManager.handle_message, on the state get_state returned
handle_message(st, m, env, stor) ==
    IF st.current_intent = None
    THEN after_detect(st, m, env, stor)
    ELSE dispatch(st, m, env, stor, << >>)

\* ---------------------------------------------------------------- LangGraphManager
\* A node that appended no AIMessage in this run
NO_AI == Reply("", NoId)

\* handle_booking, lines 93-96: the first catalog entry, in dict order,
\* whose key or lower-cased display name occurs in the lower-cased text
RECURSIVE match_room_type(_, _)
match_room_type(words, i) ==
    IF i > Len(ROOM_TYPES) THEN << >>
    ELSE IF ROOM_TYPES[i].key \in words \/ ROOM_TYPES[i].name \subseteq words
    THEN << ROOM_TYPES[i].key >>
    ELSE match_room_type(words, i + 1)

\* detect_intent node: the classifier's label replaces current_intent
detect_intent(st, env) == [st EXCEPT !.current_intent = env.label]

\* booking_flow node
handle_booking(st, m, env, stor, calls) ==
    IF DOMAIN st.collected_data = {}
    THEN Out(st, stor, Reply(R_ASK_DATES, NoId), calls)
    ELSE IF "dates" \notin DOMAIN st.collected_data
    THEN LET dates == extract_dates(m.dates)
         IN  IF dates # << >>
             THEN IF is_valid_date_range(dates[1].check_in, dates[1].check_out)
                  THEN Out([st EXCEPT !.collected_data = Put(@, "dates", dates[1])],
                           stor, Reply(R_ASK_ROOM, NoId), calls)
                  ELSE Out(st, stor, Reply(R_BAD_DATES, NoId), calls)
             ELSE Out(st, stor, Reply(R_NO_DATES, NoId), calls)
    ELSE IF "room_type" \notin DOMAIN st.collected_data
    THEN LET room_type == match_room_type(m.words, 1)
         IN  IF room_type # << >>
             THEN Out([st EXCEPT !.collected_data = Put(@, "room_type", room_type[1])],
                      stor, Reply(R_ASK_GUEST, NoId), calls)
             ELSE Out(st, stor, Reply(R_BAD_ROOM, NoId), calls)
    ELSE IF "guest" \notin DOMAIN st.collected_data
    THEN LET st1 == [st EXCEPT !.collected_data = Put(@, "guest", m.email)]
             r == svc_create(stor, env)
             c == Append(calls, Call("create", r.id, << >>))
         IN  IF r.ok
             THEN LET st2 == [st1 EXCEPT !.current_booking_id = r.id]
                  IN  IF env.svc = "ok"
                      THEN Out(st2, r.storage, Reply(R_CONFIRMATION, r.id),
                               Append(c, Call("llm", r.id, << >>)))
                      ELSE Out(st2, r.storage, Raised,
                               Append(c, Call("llm", r.id, << >>)))
             ELSE IF env.svc = "ValueError"
             THEN Out([st1 EXCEPT !.error = "ValueError"], stor,
                      Reply(R_ERR_CREATE, NoId), c)
             ELSE Out(st1, stor, Raised, c)
    ELSE Out(st, stor, NO_AI, calls)

\* rescheduling_flow node
handle_rescheduling(st, m, env, stor, calls) ==
    IF st.current_booking_id = NoId
    THEN Out(st, stor, Reply(R_ASK_ID_RESCH, NoId), calls)
    ELSE LET id == st.current_booking_id
             c1 == Append(calls, Call("get", id, << >>))
         IN  IF ~svc_get(stor, id)
             THEN Out([st EXCEPT !.error = "Booking not found"], stor,
                      Reply(R_NOT_FOUND, id), c1)
             ELSE IF "new_dates" \notin DOMAIN st.collected_data
             THEN LET dates == extract_dates(m.dates)
                  IN  IF dates # << >>
                      THEN IF is_valid_date_range(dates[1].check_in, dates[1].check_out)
                           THEN LET st1 == [st EXCEPT !.collected_data =
                                                Put(@, "new_dates", dates[1])]
                                    c2 == Append(c1, Call("update", id, dates))
                                    c3 == Append(c2, Call("llm", id, << >>))
                                IN  IF env.svc = "ok"
                                    THEN Out(st1, stor, Reply(R_CONFIRMATION, id), c3)
                                    ELSE IF env.svc = "llm_raise"
                                    THEN Out(st1, stor, Raised, c3)
                                    ELSE IF env.svc = "ValueError"
                                    THEN Out([st1 EXCEPT !.error = "ValueError"], stor,
                                             Reply(R_ERR_RESCH, NoId), c2)
                                    ELSE Out(st1, stor, Raised, c2)
                           ELSE Out(st, stor, Reply(R_BAD_DATES, NoId), c1)
                      ELSE Out(st, stor, Reply(R_ASK_NEWDATES_FMT, NoId), c1)
             ELSE Out(st, stor, NO_AI, c1)

\* inquiry_flow node
handle_inquiry(st, m, env, stor, calls) ==
    LET c == Append(calls, Call("llm", NoId, << >>))
    IN  IF env.svc \in {"llm_raise", "Exception"}
        THEN Out(st, stor, Raised, c)
        ELSE Out(st, stor, Reply(R_ANSWER, NoId), c)

\* The edge out of detect_intent (lines 209-214): the targets whose condition
\* holds.  END and a flow can hold together; the run takes either.
edge_targets(st) ==
    (IF st.current_intent = "booking" THEN {"booking_flow"} ELSE {})
    \cup (IF st.current_intent = "rescheduling" THEN {"rescheduling_flow"} ELSE {})
    \cup (IF st.current_intent = "inquiry" THEN {"inquiry_flow"} ELSE {})
    \cup (IF st.error # None THEN {"END"} ELSE {})

route(st, env) ==
    LET t == edge_targets(st)
        flows == t \ {"END"}
    IN  IF flows = {} \/ ("END" \in t /\ env.stop) THEN "END"
        ELSE CHOOSE f \in flows : TRUE

\* One run of the graph on the state with the HumanMessage appended: the
\* entry point detect_intent, the edge to a flow, the flow node.  The edge
\* from a flow leads back to detect_intent "for next message" (line 216),
\* or to END once error is set: either way the run is over.
graph_run(st, m, env, stor) ==
    LET c == << Call("classify", NoId, << >>) >>
    IN  IF env.label = "RAISE"
        THEN Out(st, stor, Raised, c)
        ELSE LET st1 == detect_intent(st, env)
                 to == route(st1, env)
             IN  IF to = "booking_flow" THEN handle_booking(st1, m, env, stor, c)
                 ELSE IF to = "rescheduling_flow"
                 THEN handle_rescheduling(st1, m, env, stor, c)
                 ELSE IF to = "inquiry_flow" THEN handle_inquiry(st1, m, env, stor, c)
                 ELSE Out(st1, stor, NO_AI, c)

\* LangGraphManager.handle_message: the last AIMessage of the run is the
\* reply; a run that appended none is answered with the apology.
graph_handle_message(st, m, env, stor) ==
    LET r == graph_run(st, m, env, stor)
    IN  IF r.reply = NO_AI
        THEN Out(r.state, r.storage, Reply(R_APOLOGY, NoId), r.calls)
        ELSE r

\* ---------------------------------------------------------------- observers
Fresh == [scenario |-> "fresh", step |-> 0]
Off == [scenario |-> "off", step |-> 0]
At(scenario, step) == [scenario |-> scenario, step |-> step]

SuppliesValidDates(m) ==
    /\ Len(m.dates) = 2
    /\ m.dates[1] # m.dates[2]
    /\ LET ci == Min(Elems(m.dates))
           co == CHOOSE d \in Elems(m.dates) : d # ci
       IN  ci >= 0 /\ co - ci <= MaxStay /\ ci <= MaxAdvance

NamesCatalogRoom(m) ==
    \E i \in 1..Len(ROOM_TYPES) :
        ROOM_TYPES[i].key \in m.words \/ ROOM_TYPES[i].name \subseteq m.words

Called(calls, op) == {i \in 1..Len(calls) : calls[i].op = op}

\* The collaborators did what they were asked in the turn that returned r
Cooperative(r) == r.reply.text \notin {EXCEPTION, R_ERR_CREATE, R_ERR_RESCH}

\* The end-to-end scenarios of the specification's test list, followed
\* turn by turn from a user's first message:
\*   booking:      classified booking; a valid date range; a catalog room
\*                 type; a name and an email;
\*   rescheduling: classified rescheduling; the id of a stored booking;
\*                 a valid date range.
Advance(p, m, env, r, stor) ==
    IF ~Cooperative(r) THEN Off
    ELSE IF p = Fresh
    THEN IF env.label \in {"booking", "rescheduling"} THEN At(env.label, 1) ELSE Off
    ELSE IF p.scenario = "booking"
    THEN IF p.step = 1 /\ SuppliesValidDates(m) THEN At("booking", 2)
         ELSE IF p.step = 2 /\ NamesCatalogRoom(m) THEN At("booking", 3)
         ELSE IF p.step = 3 /\ m.email THEN At("booking", 4)
         ELSE Off
    ELSE IF p.scenario = "rescheduling"
    THEN IF p.step = 1 /\ m.bid \in stor.ids THEN At("rescheduling", 2)
         ELSE IF p.step = 2 /\ SuppliesValidDates(m) THEN At("rescheduling", 3)
         ELSE Off
    ELSE Off

NoTurn ==
    [user |-> "-", msg |-> Msg(<< >>, {}, FALSE, NoId), pre |-> NewState,
     first |-> FALSE, stor |-> [ids |-> {}, issued |-> 0], label |-> "NOCALL",
     node |-> "-", reply |-> NO_AI, calls |-> << >>]

\* ---------------------------------------------------------------- actions
\* A collaborator that is not called in a turn returns nothing in it: the
\* part of env that the turn does not consume is held at a fixed value.
Consumed(env, r, st) ==
    /\ Called(r.calls, "classify") = {} => env.label = "RAISE"
    /\ (\A i \in 1..Len(r.calls) : r.calls[i].op \in {"classify", "get"})
           => env.svc = "ok"
    /\ st.error = None => ~env.stop

\* One ConversationState object shared by every user
put_state_shared(sts, u, st) == [v \in DOMAIN sts |-> st]

\* self.states[user_id] after the call mutated the state object it holds
put_state(sts, u, st) == [sts EXCEPT ![u] = st]

\* What one handle_message(u, m) call with outcome r, on a manager whose
\* self.states is sts, leaves in the conversation and the booking storage
TurnEffects(sts, u, m, env, r) ==
    /\ Consumed(env, r, get_state(sts, u))
    /\ r.storage.issued <= MaxBookings
    /\ nturns' = nturns + 1
    /\ states' = put_state(states, u, r.state)
    /\ storage' = r.storage
    /\ last' = [user |-> u, msg |-> m, pre |-> get_state(sts, u),
                first |-> sts[u] = NoState, stor |-> storage,
                label |-> IF Called(r.calls, "classify") # {} THEN env.label
                          ELSE "NOCALL",
                node |-> IF impl = "graph" /\ env.label # "RAISE"
                         THEN route(detect_intent(get_state(sts, u), env), env)
                         ELSE "-",
                reply |-> r.reply, calls |-> r.calls]
    /\ ncalls' = [ncalls EXCEPT ![u] =
                     [op \in {"create", "update", "delete"} |->
                         @[op] + Cardinality(Called(r.calls, op))]]
    /\ booked' = IF \E i \in Called(r.calls, "create") : r.calls[i].id # NoId
                 THEN [booked EXCEPT ![u] = << r.state.collected_data >>]
                 ELSE booked
    /\ progress' = [progress EXCEPT ![u] = Advance(@, m, env, r, storage)]

\* One handle_message(u, m) call on a manager whose self.states is sts, run
\* to completion, r being its outcome
TurnOn(sts, u, m, env, r) ==
    /\ TurnEffects(sts, u, m, env, r)
    /\ UNCHANGED <<impl, tasks, probe, bookings, file, ops>>

\* One handle_message(u, m) call on the manager the deployment holds
Turn(u, m, env, r) == TurnOn(states, u, m, env, r)

ManagerTurn(u, m, env) ==
    /\ impl = "manager"
    /\ LET r == handle_message(get_state(states, u), m, env, storage)
       IN  Turn(u, m, env, r)

GraphTurn(u, m, env) ==
    /\ impl = "graph"
    /\ LET r == graph_handle_message(get_state(states, u), m, env, storage)
       IN  Turn(u, m, env, r)

\* The messages of the end-to-end scenarios
ScenarioMsgs ==
    { Msg(<<>>, {}, FALSE, NoId), Msg(<<3, 1>>, {}, FALSE, NoId),
      Msg(<<>>, {"standard"}, FALSE, NoId), Msg(<<>>, {}, TRUE, NoId),
      Msg(<<>>, {}, FALSE, 1) }

Next ==
    \/ \E u \in Users, m \in ScenarioMsgs, env \in Envs :
           nturns < MaxTurns /\ ManagerTurn(u, m, env)
    \/ \E u \in Users, m \in ScenarioMsgs, env \in Envs :
           nturns < MaxTurns /\ GraphTurn(u, m, env)

\* ---------------------------------------------------------------- coroutines
\* handle_message is a coroutine; FastAPI runs process_message as a
\* background task on the event loop, so several calls on one manager
\* proceed concurrently and change over at their awaits.  t1 and t2 carry
\* first messages of u1, t3 one of u2.
Tasks == {"t1", "t2", "t3"}

TaskUser(t) == IF t = "t3" THEN "u2" ELSE "u1"

\* No coroutine has started: no state object exists (heap), self.states
\* is empty (obj: the object each user's entry refers to, 0 for none)
NoTasks ==
    [pc |-> [t \in Tasks |-> "start"], ref |-> [t \in Tasks |-> 0],
     saw_none |-> [t \in Tasks |-> FALSE], obj |-> [u \in Users |-> 0],
     heap |-> << >>, made |-> [u \in Users |-> 0]]

\* get_state with the coroutine suspended between the membership test and
\* the insertion
get_state_split(tk, t) ==
    LET u == TaskUser(t)
        n == Len(tk.heap) + 1
    IN  IF tk.pc[t] = "start"
        THEN [tk EXCEPT !.pc[t] = "tested", !.saw_none[t] = (tk.obj[u] = 0)]
        ELSE IF tk.saw_none[t]
        THEN [tk EXCEPT !.heap = Append(@, NewState), !.obj[u] = n,
                        !.made[u] = @ + 1, !.ref[t] = n, !.pc[t] = "got"]
        ELSE [tk EXCEPT !.ref[t] = tk.obj[u], !.pc[t] = "got"]

\* get_state(user_id) called by coroutine t: a plain method without an
\* await, so test and insertion run without a change of coroutine
get_state_call(tk, t) ==
    LET u == TaskUser(t)
        n == Len(tk.heap) + 1
    IN  IF tk.obj[u] = 0
        THEN [tk EXCEPT !.heap = Append(@, NewState), !.obj[u] = n,
                        !.made[u] = @ + 1, !.ref[t] = n, !.pc[t] = "got"]
        ELSE [tk EXCEPT !.ref[t] = tk.obj[u], !.pc[t] = "got"]

\* self.states as the users' entries show it
DictView(tk) ==
    [u \in Users |-> IF tk.obj[u] = 0 THEN NoState ELSE tk.heap[tk.obj[u]]]

\* handle_message up to its first await: get_state, then (manager.py:58)
\* the test of current_intent, whose branch awaits the classifier, or
\* (langgraph_flow.py:250) the await of the graph run
Enter(t) ==
    /\ tasks.pc[t] \in {"start", "tested"}
    /\ LET tk == get_state_call(tasks, t)
       IN  tasks' = IF tk.pc[t] = "got"
                    THEN [tk EXCEPT !.pc[t] = "awaiting",
                                    !.saw_none[t] =
                                        (tk.heap[tk.ref[t]].current_intent = None)]
                    ELSE tk
    /\ states' = DictView(tasks')
    /\ UNCHANGED <<impl, storage, nturns, last, ncalls, booked, progress, probe,
                 bookings, file, ops>>

\* The rest of handle_message, on the state object the coroutine holds
Resume(t, m, env) ==
    /\ tasks.pc[t] = "awaiting"
    /\ LET st == tasks.heap[tasks.ref[t]]
           r == IF impl = "graph" THEN graph_handle_message(st, m, env, storage)
                ELSE IF tasks.saw_none[t] THEN after_detect(st, m, env, storage)
                ELSE dispatch(st, m, env, storage, << >>)
       IN  /\ Consumed(env, r, st)
           /\ r.storage.issued <= MaxBookings
           /\ tasks' = [tasks EXCEPT !.pc[t] = "done",
                                     !.heap[tasks.ref[t]] = r.state]
           /\ storage' = r.storage
    /\ states' = DictView(tasks')
    /\ nturns' = nturns + 1
    /\ UNCHANGED <<impl, last, ncalls, booked, progress, probe, bookings,
                 file, ops>>

\* ---------------------------------------------------------------- initial states
\* The reservations file holds a booking made earlier (id 1), or held it
Stores == {[ids |-> {}, issued |-> 1], [ids |-> {1}, issued |-> 1]}

InitCommon ==
    /\ nturns = 0
    /\ last = NoTurn
    /\ ncalls = [u \in Users |-> [op \in {"create", "update", "delete"} |-> 0]]
    /\ booked = [u \in Users |-> << >>]
    /\ tasks = NoTasks
    /\ probe = NoProbe
    /\ bookings = << >>
    /\ file = NoFile
    /\ ops = << >>

\* A manager right after construction: self.states = {}
Init ==
    /\ InitCommon
    /\ impl \in {"manager", "graph"}
    /\ storage = [ids |-> {1}, issued |-> 1]
    /\ states = [u \in Users |-> NoState]
    /\ progress = [u \in Users |-> Fresh]

Spec == Init /\ [][Next]_vars

\* ---------------------------------------------------------------- the handlers on any state
\* From a fresh manager no turn ever stores a slot or a booking reference
\* (_handle_booking and handle_booking return at their first test while
\* collected_data is empty), so the later branches of the flow handlers are
\* exercised on the states their parameter admits: every value of the
\* ConversationState fields, for the one user whose turns are followed.
SlotNames == {"dates", "room_type", "guest", "new_dates"}

SlotValue(k) ==
    IF k \in {"dates", "new_dates"} THEN [check_in |-> 1, check_out |-> 3]
    ELSE IF k = "room_type" THEN "standard"
    ELSE TRUE

AnyData == {[k \in D |-> SlotValue(k)] : D \in SUBSET SlotNames}

AnyState(errors) ==
    {st \in [current_intent : Labels \cup {None}, current_booking_id : {NoId, 1},
             collected_data : AnyData, error : errors] :
        st.current_intent = None =>
            st.collected_data = EmptyData /\ st.current_booking_id = NoId}

MaxHandlerTurns == 2

\* Either manager, holding any state for u1; no other user is known yet
InitAnyState ==
    /\ InitCommon
    /\ impl \in {"manager", "graph"}
    /\ storage \in Stores
    /\ \E st \in AnyState(IF impl = "graph" THEN {None, "ValueError"} ELSE {None}) :
           states = [u \in Users |-> IF u = "u1" THEN st ELSE NoState]
    /\ progress = [u \in Users |-> IF u = "u1" THEN Off ELSE Fresh]

\* Turns of u1 on the ConversationManager, and one run of the graph per
\* state (the state a run leaves is itself among the initial ones)
NextAnyState ==
    \/ \E m \in ScenarioMsgs, env \in Envs :
           nturns < MaxHandlerTurns /\ ManagerTurn("u1", m, env)
    \/ \E m \in Msgs, env \in Envs : nturns = 0 /\ GraphTurn("u1", m, env)

SpecAnyState == InitAnyState /\ [][NextAnyState]_vars

\* ---------------------------------------------------------------- concurrent first messages
InitConcurrent ==
    /\ InitCommon
    /\ impl \in {"manager", "graph"}
    /\ storage = [ids |-> {1}, issued |-> 1]
    /\ states = EmptyStates
    /\ progress = [u \in Users |-> Fresh]

NextConcurrent ==
    \/ \E t \in Tasks : Enter(t)
    \/ \E t \in Tasks, m \in ScenarioMsgs, env \in Envs : Resume(t, m, env)

SpecConcurrent == InitConcurrent /\ [][NextConcurrent]_vars

\* ---------------------------------------------------------------- InstagramClient
\* config.INSTAGRAM_APP_SECRET, and a secret that is not it
INSTAGRAM_APP_SECRET == "app_secret"
OtherSecret == "other_secret"

\* The id of the page the messages are sent to
PageId == "page"

\* process_webhook returned None
NoMessage == [absent |-> TRUE]

\* The text "" as a message handed to handle_message
EmptyText == Msg(<< >>, {}, FALSE, NoId)

\* A webhook payload.  entry and messaging: the key is absent, holds an
\* empty list, or holds a list of one dict.  sender and recipient: << >>
\* when the event has no such key, else the id.  message: the key is
\* absent, holds a dict without "text", or a dict with "text"; text: << >>
\* for the text "", else the message.
Payload(entry, messaging, sender, recipient, message, text) ==
    [entry |-> entry, messaging |-> messaging, sender |-> sender,
     recipient |-> recipient, message |-> message, text |-> text]

\* The payloads of user u with message m: a complete message event, the
\* event without its recipient, sender, text or message, with the text "",
\* and payloads with no event
PayloadsOf(u, m) ==
    { Payload("list", "list", << u >>, << PageId >>, "text", << m >>),
      Payload("list", "list", << u >>, << >>, "text", << m >>),
      Payload("list", "list", << >>, << PageId >>, "text", << m >>),
      Payload("list", "list", << u >>, << PageId >>, "no_text", << >>),
      Payload("list", "list", << u >>, << PageId >>, "text", << >>),
      Payload("list", "list", << u >>, << PageId >>, "absent", << >>),
      Payload("list", "empty", << >>, << >>, "absent", << >>),
      Payload("list", "absent", << >>, << >>, "absent", << >>),
      Payload("empty", "absent", << >>, << >>, "absent", << >>),
      Payload("absent", "absent", << >>, << >>, "absent", << >>) }

\* The payloads posted to the endpoint
PostedPayloads(u, m) ==
    { data \in PayloadsOf(u, m) :
        /\ data.entry = "list" /\ data.messaging = "list"
        /\ data.sender # << >>
        /\ data.message = "text" => data.text # << >> }

\* data.get("entry", [{}])[0] and entry.get("messaging", [{}])[0]: the first
\* messaging event, {} when a key is absent, IndexError on an empty list
FirstEvent(data) ==
    IF data.entry = "empty" \/ (data.entry = "list" /\ data.messaging = "empty")
    THEN [raised |-> TRUE]
    ELSE IF data.entry = "absent" \/ data.messaging = "absent"
    THEN [raised |-> FALSE, sender |-> << >>, recipient |-> << >>,
          message |-> "absent", text |-> << >>]
    ELSE [raised |-> FALSE, sender |-> data.sender,
          recipient |-> data.recipient, message |-> data.message,
          text |-> data.text]

\* instagram/client.py InstagramClient.process_webhook, the client of app.py:
\* None unless the event has a "message" key; the record is built from
\* messaging["sender"]["id"], messaging["recipient"]["id"] (KeyError when
\* absent, caught: None) and message.get("text", "")
process_webhook(data) ==
    LET messaging == FirstEvent(data)
    IN  IF messaging.raised THEN NoMessage
        ELSE IF messaging.message = "absent" THEN NoMessage
        ELSE IF messaging.sender = << >> \/ messaging.recipient = << >>
        THEN NoMessage
        ELSE [sender_id |-> messaging.sender[1],
              recipient_id |-> messaging.recipient[1],
              message |-> IF messaging.message = "text" THEN messaging.text
                          ELSE << >>]

\* instagram_client.py InstagramClient.process_webhook: a record when the
\* sender id and the text are both truthy, else None
legacy_process_webhook(data) ==
    LET messaging == FirstEvent(data)
    IN  IF messaging.raised THEN NoMessage
        ELSE IF /\ messaging.sender # << >>
                /\ messaging.message = "text"
                /\ messaging.text # << >>
        THEN [sender_id |-> messaging.sender[1], message |-> messaging.text]
        ELSE NoMessage

\* hmac.new(key, payload, hashlib.sha1).hexdigest() behind the prefix "sha1="
HmacSha1(key, payload) == [prefix |-> "sha1=", key |-> key, payload |-> payload]

\* The X-Hub-Signature header of a request with body payload: << >> when
\* the header is missing, else its value
Signatures(payload) ==
    { << >>,
      << HmacSha1(INSTAGRAM_APP_SECRET, payload) >>,
      << HmacSha1(OtherSecret, payload) >> }

\* A verify_signature that accepts every request
verify_signature_accepts_all(payload, signature) ==
    [raised |-> FALSE, value |-> TRUE]

\* InstagramClient.verify_signature: hmac.compare_digest of the expected
\* signature and the header; compare_digest raises TypeError on None
verify_signature(payload, signature) ==
    IF signature = << >> THEN [raised |-> TRUE, value |-> FALSE]
    ELSE [raised |-> FALSE,
          value |-> HmacSha1(INSTAGRAM_APP_SECRET, payload) = signature[1]]

\* The apology of process_message
R_PROCESS_ERROR ==
    "I apologize, but I encountered an error processing your request. Please try again."

\* The outcomes of the Graph API's answer to a POST
HttpOutcomes == {"ok", "error"}

\* One client method (mark_seen, send_typing_indicator, send_message) on
\* self.client: async with self.client enters the httpx.AsyncClient, which
\* opens a client that was never opened and raises RuntimeError on one that
\* was opened before, and closes it on exit; the POST is made inside, and
\* every exception is caught and turned into the result False
ClientCall(client, http) ==
    [ok |-> client = "unopened" /\ http = "ok", client |-> "closed"]

\* One entry of the record of what process_message did
Did(call, text, ok) == [call |-> call, text |-> text, ok |-> ok]

\* process_message on the InstagramClient of the request, r being the
\* outcome of its handle_message call: mark_seen, typing on, the reply or
\* the apology, typing off
process_message(message_data, r, http) ==
    LET seen == ClientCall("unopened", http)
        typing == ClientCall(seen.client, http)
        sent == ClientCall(typing.client, http)
        off == ClientCall(sent.client, http)
    IN  << Did("mark_seen", "", seen.ok),
           Did("typing_on", "", typing.ok),
           Did("handle_message", "", r.reply.text # EXCEPTION),
           Did("send_message",
               IF r.reply.text = EXCEPTION THEN R_PROCESS_ERROR
               ELSE r.reply.text, sent.ok),
           Did("typing_off", "", off.ok) >>

\* message_data["message"] as handle_message receives it
TextMsg(text) == IF text = << >> THEN EmptyText ELSE text[1]

\* What the endpoint answered and did for one request
Request(data, signature, status, body, http, trace) ==
    [fn |-> "instagram_webhook", data |-> data, signature |-> signature,
     status |-> status, body |-> body, http |-> http, trace |-> trace]

\* ---------------------------------------------------------------- the validators called
\* The dates the date validators are called with, as days from today
ProbeDays == {-1, 0, 1, 2, 30, 31, 32, 364, 365, 366, 367, 395, 396, 400}

\* DateParser.is_valid_date_range(check_in, check_out), called at any time
\* of today: today = datetime.now().date() is day 0
CallIsValidDateRange ==
    \E ci \in ProbeDays, co \in ProbeDays, now \in 0..(TicksPerDay - 1) :
        probe' = [fn |-> "is_valid_date_range", check_in |-> ci, check_out |-> co,
                  now |-> now, ok |-> is_valid_date_range(ci, co),
                  reason |-> date_range_error(ci, co)]

\* validate_dates(check_in, check_out) on datetimes of yesterday .. the
\* day after tomorrow
CallValidateDates ==
    \E ci \in (0 - TicksPerDay)..(3 * TicksPerDay - 1),
       co \in (0 - TicksPerDay)..(3 * TicksPerDay - 1),
       now \in 0..(TicksPerDay - 1) :
        probe' = [fn |-> "validate_dates", check_in |-> ci, check_out |-> co,
                  now |-> now, ok |-> validate_dates(ci, co, now) = "",
                  reason |-> validate_dates(ci, co, now)]

\* The fragments tried, and the longest text
MaxFragments == 2

Fragments ==
    {[fmt |-> "slash", day |-> 10], [fmt |-> "slash", day |-> 12],
     [fmt |-> "iso", day |-> 10, alias |-> 0 - 4361],
     [fmt |-> "iso", day |-> 14, alias |-> 0 - 2899],
     [fmt |-> "month", day |-> 11], [fmt |-> "dmy", day |-> 14],
     [fmt |-> "relative", day |-> 1], [fmt |-> "relative", day |-> 7],
     [fmt |-> "from_now", day |-> 3], [fmt |-> "from_now", day |-> DateMaxDay + 1],
     [fmt |-> "junk"]}

Texts == UNION {[1..n -> Fragments] : n \in 0..MaxFragments}

\* DateParser.extract_dates(text)
CallExtractDates ==
    \E text \in Texts :
        LET r == extract_dates_text(text)
        IN  probe' = [fn |-> "extract_dates", text |-> text,
                      raised |-> r.raised, value |-> r.value]

\* The messages tried on the room-type step: each catalog key, each display
\* name, no catalog word, and a word of no entry's key or full name
RoomMessages ==
    {{ROOM_TYPES[i].key} : i \in 1..Len(ROOM_TYPES)}
        \cup {ROOM_TYPES[i].name : i \in 1..Len(ROOM_TYPES)}
        \cup {{}, {"room"}, {"executive"}}

\* handle_booking's room-type step on a message with these words
CallMatchRoomType ==
    \E words \in RoomMessages :
        probe' = [fn |-> "match_room_type", words |-> words,
                  value |-> match_room_type(words, 1)]

\* process_webhook of either client called on a payload
CallProcessWebhook ==
    \E m \in ScenarioMsgs : \E data \in PayloadsOf("u1", m) :
        probe' = [fn |-> "process_webhook", data |-> data,
                  value |-> process_webhook(data),
                  legacy |-> legacy_process_webhook(data)]

InitValidators ==
    /\ InitCommon
    /\ impl = "manager"
    /\ storage = [ids |-> {}, issued |-> 0]
    /\ states = EmptyStates
    /\ progress = [u \in Users |-> Fresh]

NextValidators ==
    \/ CallIsValidDateRange /\ UNCHANGED <<impl, states, storage, nturns, last,
                                          ncalls, booked, progress, tasks, bookings,
                                          file, ops>>
    \/ CallValidateDates /\ UNCHANGED <<impl, states, storage, nturns, last,
                                       ncalls, booked, progress, tasks, bookings,
                                          file, ops>>
    \/ CallExtractDates /\ UNCHANGED <<impl, states, storage, nturns, last,
                                      ncalls, booked, progress, tasks, bookings,
                                          file, ops>>
    \/ CallMatchRoomType /\ UNCHANGED <<impl, states, storage, nturns, last,
                                       ncalls, booked, progress, tasks, bookings,
                                          file, ops>>
    \/ CallProcessWebhook /\ UNCHANGED <<impl, states, storage, nturns, last,
                                        ncalls, booked, progress, tasks,
                                        bookings, file, ops>>

SpecValidators == InitValidators /\ [][NextValidators]_vars

\* ---------------------------------------------------------------- the booking service
\* BookingService.create and update called in any order with any data, on a
\* storage that starts empty.  Dates are clock ticks 0..MaxTick.
MaxTick == 2

MaxStored == 2

Rates == {100, 150}

\* data["check_in_date"], data["check_out_date"]: absent, or an ISO string
DateArgs == {<< >>} \cup {<< IsoStr(t) >> : t \in 0..MaxTick}

\* data["room"]: absent, or a room with its rate and number of adults
RoomArgs ==
    {<< >>} \cup {<< [rate |-> r, num_adults |-> 1] >> : r \in Rates}
            \cup {<< [rate |-> 100, num_adults |-> 0] >>}

\* What storage.create and storage.update do: store, or raise
StorageOutcomes == {"ok", "TypeError"}

\* The dates and the rate a call asks the booking to have, where the data
\* and the booking fix them
Asked(validated_data) ==
    [dates |-> IF validated_data.check_in_date # << >>
                  /\ validated_data.check_out_date # << >>
               THEN << [check_in_date |-> validated_data.check_in_date[1].t,
                        check_out_date |-> validated_data.check_out_date[1].t] >>
               ELSE << >>,
     rate |-> IF validated_data.room # << >>
              THEN << validated_data.room[1].rate >> ELSE << >>]

\* The keys of the patch that update is called with
Keys(data) ==
    {f \in {"check_in_date", "check_out_date", "room"} : data[f] # << >>}

\* A call that raises before it reaches the storage gets no outcome from
\* it: r is what the call does when the storage stores
StorageCalled(r, out) == r.raised # "" => out = "ok"

ServiceCreate ==
    /\ storage.issued < MaxStored
    /\ \E ci \in DateArgs, co \in DateArgs, room \in RoomArgs, email \in BOOLEAN,
          out \in StorageOutcomes :
          LET data == [check_in_date |-> ci, check_out_date |-> co,
                       email |-> email, room |-> room]
              r == BookingService_create(storage, bookings, data, out)
          IN  /\ StorageCalled(BookingService_create(storage, bookings, data, "ok"),
                               out)
              /\ storage' = r.storage
              /\ bookings' = r.bookings
              /\ probe' = [fn |-> "create", id |-> r.id, raised |-> r.raised,
                           asked |-> Asked(data)]
    /\ UNCHANGED <<impl, states, nturns, last, ncalls, booked, progress, tasks,
                   file, ops>>

ServiceUpdate ==
    /\ \E id \in 1..MaxStored, ci \in DateArgs, co \in DateArgs, room \in RoomArgs,
          out \in StorageOutcomes :
          LET data == [check_in_date |-> ci, check_out_date |-> co, room |-> room]
              r == BookingService_update(storage, bookings, id, data, out)
          IN  /\ StorageCalled(BookingService_update(storage, bookings, id, data,
                                                     "ok"), out)
              /\ storage' = r.storage
              /\ bookings' = r.bookings
              /\ probe' = [fn |-> "update", id |-> id, raised |-> r.raised,
                           keys |-> Keys(data),
                           asked |-> IF id \in storage.ids
                                     THEN Asked(Merged(bookings[id], data))
                                     ELSE Asked(data)]
    /\ UNCHANGED <<impl, states, nturns, last, ncalls, booked, progress, tasks,
                   file, ops>>

InitService ==
    /\ InitCommon
    /\ impl = "manager"
    /\ storage = [ids |-> {}, issued |-> 0]
    /\ states = EmptyStates
    /\ progress = [u \in Users |-> Fresh]

NextService == ServiceCreate \/ ServiceUpdate

SpecService == InitService /\ [][NextService]_vars

\* ---------------------------------------------------------------- the reservations file
\* ReservationStorage's operations called in any order on a file that starts
\* with no reservation.  storage and bookings keep what the callers were
\* told: the ids that a create returned and no delete removed, and for each
\* the fields passed to create and to the updates that returned True.
MaxReservations == 2

MaxDay == 4

ReservationRooms == {"standard", "deluxe"}

\* booking_details: dates as ISO strings, or check_in_date as a datetime
BookingDetails ==
    [room_type : ReservationRooms,
     check_in_date : {IsoStr(1), DateTime(1)},
     check_out_date : {IsoStr(2), IsoStr(3)},
     num_adults : {2}]

\* updates: the number of adults, the room type with it, a check-out date
\* as a datetime, or nothing
ReservationUpdates ==
    {[room_type |-> << >>, check_out_date |-> << >>, num_adults |-> << >>],
     [room_type |-> << >>, check_out_date |-> << >>, num_adults |-> << 3 >>],
     [room_type |-> << "deluxe" >>, check_out_date |-> << >>, num_adults |-> << 3 >>],
     [room_type |-> << >>, check_out_date |-> << DateTime(4) >>, num_adults |-> << >>]}

\* What a caller that got booking_id back expects get_reservation to return
Expected(booking_details, booking_id) ==
    [booking_id |-> booking_id,
     room_type |-> booking_details.room_type,
     check_in_date |-> booking_details.check_in_date,
     check_out_date |-> booking_details.check_out_date,
     num_adults |-> booking_details.num_adults,
     status |-> "confirmed"]

ReservationCreate ==
    /\ storage.issued < MaxReservations
    /\ \E d \in BookingDetails :
          LET id == storage.issued + 1
              r == create_reservation(file, d, id)
          IN  /\ file' = r.file
              /\ storage' = [issued |-> id,
                             ids |-> IF r.raised = "" THEN storage.ids \cup {id}
                                     ELSE storage.ids]
              /\ bookings' = IF r.raised = ""
                             THEN [k \in DOMAIN bookings \cup {id} |->
                                      IF k = id THEN Expected(d, id) ELSE bookings[k]]
                             ELSE bookings
              /\ probe' = [fn |-> "create_reservation", id |-> id, raised |-> r.raised,
                           result |-> r.result, pre |-> file]
    /\ UNCHANGED <<impl, states, nturns, last, ncalls, booked, progress, tasks, ops>>

ReservationUpdate ==
    /\ \E id \in 1..MaxReservations, u \in ReservationUpdates :
          LET r == update_reservation(file, id, u)
          IN  /\ file' = r.file
              /\ bookings' = IF r.raised = "" /\ r.result /\ id \in DOMAIN bookings
                             THEN [bookings EXCEPT ![id] = Updated(@, u)]
                             ELSE bookings
              /\ probe' = [fn |-> "update_reservation", id |-> id, raised |-> r.raised,
                           result |-> r.result, pre |-> file, updates |-> u]
    /\ UNCHANGED <<impl, states, storage, nturns, last, ncalls, booked, progress,
                   tasks, ops>>

ReservationDelete ==
    /\ \E id \in 1..MaxReservations :
          LET r == delete_reservation(file, id)
          IN  /\ file' = r.file
              /\ storage' = [storage EXCEPT !.ids = @ \ {id}]
              /\ bookings' = [k \in DOMAIN bookings \ {id} |-> bookings[k]]
              /\ probe' = [fn |-> "delete_reservation", id |-> id, raised |-> r.raised,
                           result |-> r.result, pre |-> file, wrote |-> r.wrote]
    /\ UNCHANGED <<impl, states, nturns, last, ncalls, booked, progress, tasks, ops>>

ReservationCheckAvailability ==
    /\ \E ci \in 1..MaxDay, co \in 1..MaxDay, room \in ReservationRooms :
          /\ ci < co
          /\ probe' = [fn |-> "check_availability", check_in |-> ci, check_out |-> co,
                       room_type |-> room, pre |-> file,
                       result |-> check_availability(file, ci, co, room)]
    /\ UNCHANGED <<impl, states, storage, nturns, last, ncalls, booked, progress,
                   tasks, bookings, file, ops>>

\* The item of booking k as the reservations file of the application
\* holds it
StoredItem(k) ==
    [id |-> IdStr(k), check_in_date |-> IsoStr(0), check_out_date |-> IsoStr(TicksPerDay),
     rate |-> 100, num_adults |-> 1, total_amount |-> 100,
     status |-> "pending", created_at |-> IsoStr(0)]

\* Files of JSONStorage holding the bookings of some ids, in some order
JsonFiles ==
    {[valid |-> TRUE, reservations |-> d] :
        d \in {<< >>, << StoredItem(1) >>, << StoredItem(2) >>,
               << StoredItem(1), StoredItem(2) >>, << StoredItem(2), StoredItem(1) >>}}

\* JSONStorage.delete(id) on such a file
JsonDelete ==
    /\ \E f \in JsonFiles, id \in 1..MaxReservations :
          LET r == JSONStorage_delete(f, id)
          IN  probe' = [fn |-> "JSONStorage.delete", id |-> id, raised |-> r.raised,
                        result |-> r.result, pre |-> f, post |-> r.file,
                        wrote |-> r.wrote]
    /\ UNCHANGED <<impl, states, storage, nturns, last, ncalls, booked, progress,
                   tasks, bookings, file, ops>>

InitReservations ==
    /\ InitCommon
    /\ impl = "manager"
    /\ storage = [ids |-> {}, issued |-> 0]
    /\ states = EmptyStates
    /\ progress = [u \in Users |-> Fresh]

NextReservations ==
    \/ ReservationCreate
    \/ ReservationUpdate
    \/ ReservationDelete
    \/ ReservationCheckAvailability
    \/ JsonDelete

SpecReservations == InitReservations /\ [][NextReservations]_vars

\* ---------------------------------------------------------------- concurrent storage calls
\* The number of JSONStorage calls started together
MaxOps == 2

\* A Booking object with id k, as a request handler hands it to the storage
NewItem(k) == parse_obj(StoredItem(k))

\* One JSONStorage call: create(item), update(id, item) or delete(id), on
\* the item or the id k
StorageCall(op, k) == [op |-> op, id |-> k, pc |-> "started", raised |-> ""]

\* A request handler starts a storage call: the coroutine is created and
\* waits for the event loop.  uuid4 gives every created item an id of its own.
JsonStart(op, k) ==
    /\ Len(ops) < MaxOps
    /\ op = "create" =>
          /\ JSONStorage_get(file, k) = << >>
          /\ \A i \in DOMAIN ops : ~(ops[i].op = "create" /\ ops[i].id = k)
    /\ ops' = Append(ops, StorageCall(op, k))
    /\ UNCHANGED <<impl, states, storage, nturns, last, ncalls, booked, progress,
                   tasks, probe, bookings, file>>

\* The item that update(k, item) is called with
UpdatedItem(k) == [NewItem(k) EXCEPT !.num_adults = 2]

\* The file and the exception, "" for none, that call c leaves
JsonOutcome(f, c) ==
    IF c.op = "create" THEN JSONStorage_create(f, NewItem(c.id))
    ELSE IF c.op = "update" THEN JSONStorage_update(f, c.id, UpdatedItem(c.id))
    ELSE [raised |-> "", file |-> JSONStorage_delete(f, c.id).file]

\* The event loop runs the i-th call.  _read_data and _write_data take a
\* lock that is free and read or write the file without awaiting anything
\* that is pending, so the call does not yield between its read and its
\* write: it runs from start to end before another coroutine is scheduled.
JsonRun(i) ==
    /\ ops[i].pc = "started"
    /\ LET r == JsonOutcome(file, ops[i])
       IN  /\ file' = r.file
           /\ ops' = [ops EXCEPT ![i].pc = "done", ![i].raised = r.raised]
    /\ UNCHANGED <<impl, states, storage, nturns, last, ncalls, booked, progress,
                   tasks, probe, bookings>>

InitJSONStorage ==
    /\ nturns = 0
    /\ last = NoTurn
    /\ ncalls = [u \in Users |-> [op \in {"create", "update", "delete"} |-> 0]]
    /\ booked = [u \in Users |-> << >>]
    /\ tasks = NoTasks
    /\ probe = NoProbe
    /\ bookings = << >>
    /\ ops = << >>
    /\ file \in JsonFiles
    /\ impl = "manager"
    /\ storage = [ids |-> {}, issued |-> 0]
    /\ states = EmptyStates
    /\ progress = [u \in Users |-> Fresh]

NextJSONStorage ==
    \/ \E op \in {"create", "update", "delete"}, k \in 1..MaxReservations :
          JsonStart(op, k)
    \/ \E i \in DOMAIN ops : JsonRun(i)

SpecJSONStorage == InitJSONStorage /\ [][NextJSONStorage]_vars

\* ---------------------------------------------------------------- the webhook
\* src/src/app.py: instagram_webhook takes its conversation manager from
\* Depends(get_conversation_manager), which FastAPI calls once per request
\* and which returns ConversationManager(llm_client, booking_service): the
\* manager that process_message calls has self.states = {}.  The bookings
\* are in the reservations file and outlive the request.  Here states[u] is
\* the state that the manager of u's latest request was left holding.
MaxRequests == 3

\* One message delivered by the webhook and handled by process_message
WebhookTurn(u, m, env) ==
    /\ impl = "manager"
    /\ LET r == handle_message(get_state(EmptyStates, u), m, env, storage)
       IN  TurnOn(EmptyStates, u, m, env, r)

InitWebhook ==
    /\ InitCommon
    /\ impl = "manager"
    /\ storage = [ids |-> {1}, issued |-> 1]
    /\ states = EmptyStates
    /\ progress = [u \in Users |-> Fresh]

NextWebhook ==
    \E u \in Users, m \in ScenarioMsgs, env \in Envs :
        nturns < MaxRequests /\ WebhookTurn(u, m, env)

SpecWebhook == InitWebhook /\ [][NextWebhook]_vars

\* ---------------------------------------------------------------- the webhook endpoint
\* POST /webhook with a payload of user u and message m, and the background
\* task it schedules, on the manager and the client built for the request
instagram_webhook(u, m) ==
    \E data \in PostedPayloads(u, m) : \E signature \in Signatures(data) :
        LET verified == verify_signature(data, signature)
            message_data == process_webhook(data)
        IN  IF verified.raised \/ ~verified.value
            THEN /\ probe' = Request(data, signature,
                                     IF verified.raised THEN 500 ELSE 403,
                                     IF verified.raised THEN "Internal Server Error"
                                     ELSE "Invalid signature", "-", << >>)
                 /\ UNCHANGED <<impl, states, storage, nturns, last, ncalls,
                                booked, progress, tasks, bookings, file, ops>>
            ELSE IF message_data = NoMessage
            THEN /\ probe' = Request(data, signature, 200,
                                     "no_action_required", "-", << >>)
                 /\ UNCHANGED <<impl, states, storage, nturns, last, ncalls,
                                booked, progress, tasks, bookings, file, ops>>
            ELSE \E env \in Envs, http \in HttpOutcomes :
                    LET sender == message_data.sender_id
                        message == TextMsg(message_data.message)
                        r == handle_message(get_state(EmptyStates, sender),
                                            message, env, storage)
                    IN  /\ TurnEffects(EmptyStates, sender, message, env, r)
                        /\ probe' = Request(data, signature, 200, "processing", http,
                                            process_message(message_data, r, http))
                        /\ UNCHANGED <<impl, tasks, bookings, file, ops>>

\* The number of requests that are processed, and their messages
MaxPosts == 2
PostedMsgs == { Msg(<< >>, {}, FALSE, NoId), Msg(<< >>, {}, FALSE, 1) }

NextInstagram ==
    \E u \in Users, m \in PostedMsgs :
        nturns < MaxPosts /\ instagram_webhook(u, m)

SpecInstagram == InitWebhook /\ [][NextInstagram]_vars

\* ---------------------------------------------------------------- properties
\* The state of user u as the next handle_message would load it
St(u) == get_state(states, u)

\* The calls of the last turn to the booking service's op
LastCalled(op) == Called(last.calls, op)

\* The last turn was handled by the booking flow, which the user had
\* entered in an earlier turn
MidBookingTurn ==
    /\ last.user \in Users
    /\ last.pre.current_intent = "booking"
    /\ \/ impl = "manager" /\ last.label = "NOCALL"
       \/ impl = "graph" /\ last.node = "booking_flow"

\* C1: for a fresh user, the turns (classified booking; a valid date range;
\* a catalog room type; a name and an email) end with exactly one create
\* call, current_intent back to none and the confirmation of the new
\* booking as the reply.
C1_EndToEndBooking ==
    \A u \in Users :
        (last.user = u /\ progress[u] = At("booking", 4)) =>
            /\ ncalls[u].create = 1
            /\ St(u).current_intent = None
            /\ last.reply.text = R_CONFIRMATION
            /\ last.reply.ref # NoId

C3_NoReclassification ==
    last.user \in Users =>
        /\ last.label # "NOCALL" => last.pre.current_intent = None
        /\ (last.pre.current_intent # None
              /\ last.reply.text \notin {R_CONFIRMATION, R_CANCELLED, R_ERR_CANCEL,
                                         R_NOT_FOUND, R_ANSWER})
               => St(last.user).current_intent = last.pre.current_intent

C5_NoIntentIsClean ==
    \A u \in Users :
        (states[u] # NoState /\ states[u].current_intent = None) =>
            /\ states[u].collected_data = EmptyData
            /\ states[u].current_booking_id = NoId

C5_Witness ==
    /\ last.user = "u1"
    /\ last.pre.current_intent = None
    /\ states["u1"].current_intent = None

FailsWantedSlot(m, data) ==
    \/ "dates" \notin DOMAIN data /\ ~SuppliesValidDates(m)
    \/ "dates" \in DOMAIN data /\ "room_type" \notin DOMAIN data
         /\ ~NamesCatalogRoom(m)

\* The booking slots of data were filled in the flow's order
BookingPrefix(data) ==
    DOMAIN data \in {{}, {"dates"}, {"dates", "room_type"},
                     {"dates", "room_type", "guest"}}

\* C7: a booking-flow turn whose message fails the extraction or the
\* validation of the slot that is wanted (no parseable date range, an
\* invalid date range, no catalog room type) leaves current_intent, the
\* collected slots and the booking reference as they were, calls no
\* booking operation, and replies with the prompt for that same slot.
C7_FailedSlotKeepsState ==
    (MidBookingTurn /\ FailsWantedSlot(last.msg, last.pre.collected_data)
       /\ (impl = "manager" => BookingPrefix(last.pre.collected_data))) =>
        /\ St(last.user).current_intent = last.pre.current_intent
        /\ St(last.user).collected_data = last.pre.collected_data
        /\ St(last.user).current_booking_id = last.pre.current_booking_id
        /\ LastCalled("create") = {}
        /\ last.reply.text \in
              IF "dates" \notin DOMAIN last.pre.collected_data
              THEN {R_ASK_DATES, R_NO_DATES, R_BAD_DATES}
              ELSE {R_ASK_ROOM, R_BAD_ROOM}

\* an invalid date range was refused by the booking_flow node
C7_Witness ==
    /\ MidBookingTurn
    /\ impl = "graph"
    /\ last.msg.dates = <<1, 40>>
    /\ last.reply.text = R_BAD_DATES
    /\ last.pre.collected_data # EmptyData

\* C8: in the turn where a message is classified as rescheduling or as
\* cancellation while the booking reference is unset, ConversationManager
\* replies with the prompt for the booking ID, keeps that intent and calls
\* no operation of the booking service.
C8_AskForBookingId ==
    (impl = "manager" /\ last.user \in Users
       /\ last.label \in {"rescheduling", "cancellation"}
       /\ last.pre.current_booking_id = NoId) =>
        /\ last.reply = Reply(IF last.label = "rescheduling" THEN R_ASK_ID_RESCH
                              ELSE R_ASK_ID_CANC, NoId)
        /\ St(last.user).current_intent = last.label
        /\ \A i \in 1..Len(last.calls) : last.calls[i].op = "classify"

C8_Witness ==
    /\ impl = "manager"
    /\ last.user \in Users
    /\ last.label = "cancellation"
    /\ last.reply.text = R_ASK_ID_CANC

\* C9: for a stored booking, the turns (classified rescheduling; the
\* booking's id; a valid date range) make exactly one update call, carrying
\* the new dates, and no create call, and leave current_intent = none.
C9_EndToEndRescheduling ==
    \A u \in Users :
        (last.user = u /\ progress[u] = At("rescheduling", 3)) =>
            /\ ncalls[u].update = 1
            /\ ncalls[u].create = 0
            /\ \E i \in LastCalled("update") :
                   last.calls[i].dates = extract_dates(last.msg.dates)
            /\ St(u).current_intent = None

C12_InquiryResets ==
    (last.user \in Users /\ last.reply.text = R_ANSWER) =>
        /\ St(last.user).current_intent = None
        /\ LastCalled("create") = {} /\ LastCalled("update") = {}
        /\ LastCalled("delete") = {}
        /\ St(last.user).collected_data = last.pre.collected_data
        /\ St(last.user).current_booking_id = last.pre.current_booking_id

\* The collected booking slots were filled in the flow's order: room_type
\* only with dates, guest only with room_type
SlotsInOrder(data) ==
    /\ "room_type" \in DOMAIN data => "dates" \in DOMAIN data
    /\ "guest" \in DOMAIN data => "room_type" \in DOMAIN data

\* The flow that handled the last turn
LastFlow ==
    IF impl = "graph" THEN last.node
    ELSE IF last.pre.current_intent # None THEN last.pre.current_intent
    ELSE last.label

\* C13: create is called only by the booking flow with dates, room_type and
\* guest all stored; update only by the rescheduling flow, for a stored
\* booking and with new dates; delete only by the cancellation flow, for a
\* stored booking.  (States whose slots are in the flow's order, which
\* C19 shows every turn to preserve.)
C13_OperationProvenance ==
    (last.user \in Users /\ SlotsInOrder(last.pre.collected_data)) =>
        /\ LastCalled("create") # {} =>
              /\ LastFlow \in {"booking", "booking_flow"}
              /\ {"dates", "room_type", "guest"}
                     \subseteq DOMAIN St(last.user).collected_data
        /\ \A i \in LastCalled("update") :
              /\ LastFlow \in {"rescheduling", "rescheduling_flow"}
              /\ last.calls[i].id \in last.stor.ids
              /\ last.calls[i].id = last.pre.current_booking_id
              /\ last.calls[i].dates # << >>
        /\ \A i \in LastCalled("delete") :
              /\ LastFlow = "cancellation"
              /\ last.calls[i].id \in last.stor.ids
              /\ last.calls[i].id = last.pre.current_booking_id

\* ConversationManager created a booking from slots in the flow's order
C13_Witness ==
    /\ impl = "manager"
    /\ last.user \in Users
    /\ SlotsInOrder(last.pre.collected_data)
    /\ LastCalled("create") # {}
    /\ last.reply.text = R_CONFIRMATION

\* C14: a handle_message call for user u loads u's own state and leaves the
\* state of every other user as it was, whatever the order in which the
\* users' turns arrive.
C14_PerUserFrame ==
    [][/\ last'.pre = get_state(states, last'.user)
       /\ \A v \in Users : last'.user # v => states'[v] = states[v]]_vars

\* a turn of u2 while u1 is in a different flow
C14_Witness ==
    /\ last.user = "u2"
    /\ states["u1"] # NoState /\ states["u2"] # NoState
    /\ states["u1"].current_intent = "booking"
    /\ states["u2"].current_intent = "cancellation"

\* C15: the state a user's webhook-delivered turn left is the state that
\* the user's next webhook-delivered turn loads; only a user's first
\* message creates a state.
C15_StatePersistsAcrossTurns ==
    [][\A u \in Users :
          (last'.user = u /\ states[u] # NoState) =>
              last'.pre = states[u] /\ ~last'.first]_vars

\* C16: every ConversationManager.handle_message call returns a reply
\* string: no failure of a collaborator leaves the call as an exception.
C16_AlwaysAReply ==
    (impl = "manager" /\ last.user \in Users) => last.reply.text # EXCEPTION

\* C17: a turn of ConversationManager in which a collaborator call failed
\* leaves the user's intent, collected slots and booking reference, and the
\* stored bookings, as they were before the turn.
C17_FailedTurnChangesNothing ==
    (impl = "manager" /\ last.user \in Users
       /\ last.reply.text \in {EXCEPTION, R_ERR_CREATE, R_ERR_RESCH}) =>
        /\ St(last.user).current_intent = last.pre.current_intent
        /\ St(last.user).collected_data = last.pre.collected_data
        /\ St(last.user).current_booking_id = last.pre.current_booking_id
        /\ storage = last.stor

\* C18: whatever the interleaving of concurrent first messages, one
\* ConversationState is made per user, and every coroutine past get_state
\* holds the object that self.states has for its user.
C18_GetStateAtomic ==
    /\ \A u \in Users : tasks.made[u] <= 1
    /\ \A t \in Tasks :
           tasks.pc[t] \in {"awaiting", "done"} =>
               /\ tasks.ref[t] # 0
               /\ tasks.ref[t] = tasks.obj[TaskUser(t)]

\* both first messages of u1 entered before either resumed, and both ended
C18_Witness ==
    /\ tasks.pc["t1"] = "done" /\ tasks.pc["t2"] = "done"
    /\ tasks.saw_none["t1"] /\ tasks.saw_none["t2"]
    /\ tasks.made["u1"] = 1

\* C19: a turn that starts with the booking slots in the flow's order
\* (room_type only with dates, guest only with room_type) ends with them
\* in that order, and a booking-flow turn on a prefix of dates, room_type,
\* guest replies with a prompt for the first slot that is still missing.
C19_SlotsInFlowOrder ==
    last.user \in Users =>
        /\ SlotsInOrder(last.pre.collected_data)
              => SlotsInOrder(St(last.user).collected_data)
        /\ (LastFlow \in {"booking", "booking_flow"}
              /\ BookingPrefix(last.pre.collected_data)
              /\ last.reply.text # EXCEPTION) =>
               LET d == DOMAIN St(last.user).collected_data
               IN  IF "dates" \notin d
                   THEN last.reply.text \in {R_ASK_DATES, R_NO_DATES, R_BAD_DATES}
                   ELSE IF "room_type" \notin d
                   THEN last.reply.text \in {R_ASK_ROOM, R_BAD_ROOM}
                   ELSE IF "guest" \notin d
                   THEN last.reply.text = R_ASK_GUEST
                   ELSE BookingPrefix(St(last.user).collected_data)

\* the booking_flow node stored room_type on top of dates and asked for
\* the guest
C19_Witness ==
    /\ impl = "graph" /\ last.node = "booking_flow"
    /\ DOMAIN last.pre.collected_data = {"dates"}
    /\ DOMAIN St(last.user).collected_data = {"dates", "room_type"}
    /\ last.reply.text = R_ASK_GUEST

\* The last turn stored slot k
Stored(k) ==
    /\ k \notin DOMAIN last.pre.collected_data
    /\ k \in DOMAIN St(last.user).collected_data

C21_AdvanceBoundary ==
    (probe.fn = "is_valid_date_range"
       /\ probe.check_out > probe.check_in
       /\ probe.check_out - probe.check_in <= MaxStay) =>
        /\ probe.check_in = MaxAdvance => probe.ok
        /\ probe.check_in = MaxAdvance + 1 =>
              /\ ~probe.ok
              /\ probe.reason = "Bookings can only be made up to 1 year in advance"

\* the validator was called for the last accepted day
C21_Witness ==
    /\ probe.fn = "is_valid_date_range"
    /\ probe.check_in = MaxAdvance /\ probe.check_out = MaxAdvance + 1
    /\ probe.ok

\* C22: every pair with check_out > check_in, check_in not before today and
\* a stay of 1 to 30 days passes the date validation (the check-in being
\* within the advance window of C21, which is_valid_date_range enforces).
C22_ValidPairsPass ==
    /\ (probe.fn = "is_valid_date_range"
          /\ probe.check_out > probe.check_in /\ probe.check_in >= 0
          /\ probe.check_in <= MaxAdvance
          /\ probe.check_out - probe.check_in \in 1..MaxStay) => probe.ok
    /\ (probe.fn = "validate_dates"
          /\ DateOf(probe.check_out) > DateOf(probe.check_in)
          /\ DateOf(probe.check_in) >= DateOf(probe.now)
          /\ DateOf(probe.check_out) - DateOf(probe.check_in) \in 1..MaxStay)
             => probe.ok

\* C23: the date validation compares the check-in with the current date by
\* the day: a check-in on today's date is not rejected as past at any time
\* of day, and the past reason is given only for a check-in on an earlier
\* day.
C23_DayGranularity ==
    probe.fn \in {"is_valid_date_range", "validate_dates"} =>
        LET ci == IF probe.fn = "validate_dates" THEN DateOf(probe.check_in)
                  ELSE probe.check_in
            today == IF probe.fn = "validate_dates" THEN DateOf(probe.now) ELSE 0
        IN  /\ ci = today => probe.reason # "Check-in date cannot be in the past"
            /\ probe.reason = "Check-in date cannot be in the past" => ci < today

\* -------------------------------------------------------------- extractor
\* A fragment that denotes a date the extractor can produce
Parseable(tok) ==
    /\ tok.fmt \in {"slash", "iso", "month", "dmy", "relative", "from_now"}
    /\ tok.day <= DateMaxDay

ParseableAt(text) == {i \in 1..Len(text) : Parseable(text[i])}

\* Every fragment of the text is a date or one that parse() refuses
NoOverflow(text) == \A i \in 1..Len(text) : text[i].fmt = "from_now" => Parseable(text[i])

\* C24: from a text with exactly two parseable date tokens d1 < d2 the
\* extractor returns (d1, d2), whatever their order in the text and their
\* formats.
C24_TwoTokens ==
    (probe.fn = "extract_dates" /\ NoOverflow(probe.text)
       /\ Cardinality(ParseableAt(probe.text)) = 2) =>
        LET days == {probe.text[i].day : i \in ParseableAt(probe.text)}
        IN  Cardinality(days) = 2 =>
                /\ probe.raised = ""
                /\ probe.value = << [check_in |-> Min(days),
                                     check_out |-> Min(days \ {Min(days)})] >>

\* C25: from a text with exactly one date token the extractor returns
\* (date, date + 1 day).
C25_OneToken ==
    (probe.fn = "extract_dates" /\ NoOverflow(probe.text)
       /\ Cardinality(ParseableAt(probe.text)) = 1) =>
        LET d == probe.text[CHOOSE i \in ParseableAt(probe.text) : TRUE].day
        IN  /\ probe.raised = ""
            /\ probe.value = << [check_in |-> d, check_out |-> d + 1] >>

\* C26: from a text with no parseable date token the extractor returns None
\* and does not raise; a fragment that matches a pattern and cannot be
\* turned into a date is skipped.
C26_NoToken ==
    (probe.fn = "extract_dates" /\ ParseableAt(probe.text) = {}) =>
        /\ probe.raised = ""
        /\ probe.value = << >>

\* -------------------------------------------------------------- room type
\* C27: a message equal to a catalog entry's key or to its display name
\* stores that entry's key, and a message naming no catalog entry stores
\* nothing.
C27_RoomTypeMatch ==
    probe.fn = "match_room_type" =>
        /\ \A i \in 1..Len(ROOM_TYPES) :
              (probe.words = {ROOM_TYPES[i].key} \/ probe.words = ROOM_TYPES[i].name)
                  => probe.value = << ROOM_TYPES[i].key >>
        /\ (\A i \in 1..Len(ROOM_TYPES) :
                /\ ROOM_TYPES[i].key \notin probe.words
                /\ ~(ROOM_TYPES[i].name \subseteq probe.words))
              => probe.value = << >>

\* ---------------------------------------------------------------- bookings
ServiceCall == probe.fn \in {"create", "update"}

\* C28: every booking the storage holds has check_out_date after
\* check_in_date, and a create or update asking for dates that are not so
\* is rejected and leaves the stored bookings as they were.
C28_CheckOutAfterCheckIn ==
    /\ [](\A id \in DOMAIN bookings :
             bookings[id].check_out_date > bookings[id].check_in_date)
    /\ [][(probe'.fn \in {"create", "update"} /\ probe'.asked.dates # << >>
             /\ probe'.asked.dates[1].check_out_date
                   <= probe'.asked.dates[1].check_in_date)
            => (probe'.raised # "" /\ bookings' = bookings /\ storage' = storage)]_vars

\* An update went through and moved the booking's dates
C28_Witness ==
    /\ probe.fn = "update" /\ probe.raised = ""
    /\ bookings[probe.id].check_in_date = 1
    /\ bookings[probe.id].check_out_date = 2

\* C29: every stored booking has total_amount = room.rate x nights, nights
\* being check_out_date - check_in_date in whole days, and an update that
\* goes through leaves the booking with the dates and the rate asked and
\* the total_amount computed from them.
C29_TotalAmount ==
    /\ \A id \in DOMAIN bookings :
          bookings[id].total_amount
              = bookings[id].rate
                  * ((bookings[id].check_out_date - bookings[id].check_in_date)
                        \div TicksPerDay)
    /\ (probe.fn = "update" /\ probe.raised = "") =>
          LET b == bookings[probe.id]
          IN  /\ b.check_in_date = probe.asked.dates[1].check_in_date
              /\ b.check_out_date = probe.asked.dates[1].check_out_date
              /\ b.rate = probe.asked.rate[1]
              /\ b.total_amount
                    = probe.asked.rate[1]
                        * ((probe.asked.dates[1].check_out_date
                              - probe.asked.dates[1].check_in_date)
                             \div TicksPerDay)

\* An update went through on a booking of one night at another rate
C29_Witness ==
    /\ probe.fn = "update" /\ probe.raised = ""
    /\ bookings[probe.id].check_in_date = 0
    /\ bookings[probe.id].check_out_date = 2
    /\ bookings[probe.id].rate = 150
    /\ bookings[probe.id].total_amount = 150

\* ---------------------------------------------------------------- recorded error
\* The last turn completed a step: a slot was stored, a booking confirmed
\* or an inquiry answered
SuccessfulStep ==
    /\ last.user \in Users
    /\ last.reply.text \in {R_ASK_ROOM, R_ASK_GUEST, R_CONFIRMATION, R_ANSWER}

\* The state is as a failed create or update left it: the error recorded,
\* the guest or the new dates stored by the turn that made the call
AfterFailedAction(st) ==
    /\ st.error = "ValueError"
    /\ \/ st.current_intent = "booking" /\ "guest" \in DOMAIN st.collected_data
       \/ st.current_intent = "rescheduling" /\ "new_dates" \in DOMAIN st.collected_data

C31_RoundTrip ==
    /\ \A id \in storage.ids : get_reservation(file, id) = << bookings[id] >>
    /\ \A id \in (1..MaxReservations) \ storage.ids : get_reservation(file, id) = << >>
    /\ (probe.fn = "create_reservation" /\ probe.raised = "") =>
          /\ probe.result = probe.id
          /\ get_reservation(probe.pre, probe.result) = << >>

\* C32: update_reservation on an existing id returns True and leaves the
\* reservation with the updated fields overwritten, its other fields and
\* the other reservations as they were; on an id that does not exist it
\* returns False and leaves the file as it was.
C32_UpdateFrame ==
    probe.fn = "update_reservation" =>
        LET before == get_reservation(probe.pre, probe.id)
        IN  IF before # << >>
            THEN /\ probe.raised = "" /\ probe.result
                 /\ get_reservation(file, probe.id)
                       = << Updated(before[1], probe.updates) >>
                 /\ \A id \in (1..MaxReservations) \ {probe.id} :
                       get_reservation(file, id) = get_reservation(probe.pre, id)
            ELSE /\ probe.raised = "" /\ ~probe.result
                 /\ file = probe.pre

\* C33: delete_reservation returns True exactly when the id existed; after
\* it get_reservation for the id returns None and every other reservation
\* is as it was; deleting an id that does not exist writes nothing.
C33_DeleteExact ==
    /\ probe.fn = "delete_reservation" =>
          /\ probe.result = (get_reservation(probe.pre, probe.id) # << >>)
          /\ get_reservation(file, probe.id) = << >>
          /\ \A id \in (1..MaxReservations) \ {probe.id} :
                get_reservation(file, id) = get_reservation(probe.pre, id)
          /\ ~probe.result => (~probe.wrote /\ file = probe.pre)
    /\ probe.fn = "JSONStorage.delete" =>
          /\ probe.result = (JSONStorage_get(probe.pre, probe.id) # << >>)
          /\ JSONStorage_get(probe.post, probe.id) = << >>
          /\ \A id \in (1..MaxReservations) \ {probe.id} :
                JSONStorage_get(probe.post, id) = JSONStorage_get(probe.pre, id)
          /\ ~probe.result => (~probe.wrote /\ probe.post = probe.pre)

\* One of two reservations was deleted and the other is still there
C33_Witness ==
    /\ probe.fn = "delete_reservation" /\ probe.result
    /\ Len(_load_data(probe.pre)) = 2
    /\ Len(_load_data(file)) = 1

\* C34: check_availability returns False exactly when a stored reservation
\* of the same room type has its check-in before the requested check-out
\* and its check-out after the requested check-in; a stay that starts on
\* the day another ends is available, and other room types do not count.
C34_Availability ==
    probe.fn = "check_availability" =>
        LET data == _load_data(probe.pre)
            Overlaps(r) == /\ r.check_in_date.t < probe.check_out
                           /\ r.check_out_date.t > probe.check_in
        IN  /\ probe.result
                 = ~(\E i \in 1..Len(data) :
                        data[i].room_type = probe.room_type /\ Overlaps(data[i]))
            /\ (\A i \in 1..Len(data) :
                   \/ data[i].room_type # probe.room_type
                   \/ data[i].check_out_date.t = probe.check_in)
                 => probe.result

\* A stay that starts on the day a stored one of the same room type ends
C34_Witness ==
    /\ probe.fn = "check_availability" /\ probe.result
    /\ \E i \in 1..Len(_load_data(probe.pre)) :
          /\ _load_data(probe.pre)[i].room_type = probe.room_type
          /\ _load_data(probe.pre)[i].check_out_date.t = probe.check_in

\* ---------------------------------------------------------------- Instagram
\* The first messaging event of the payload has a sender id and a text
HasSenderAndText(data) ==
    /\ data.entry = "list" /\ data.messaging = "list"
    /\ data.sender # << >>
    /\ data.message = "text" /\ data.text # << >>

\* C35: process_webhook of the client the webhook endpoint uses returns a
\* record with the sender id and the message text for every payload whose
\* first messaging event has a sender id and a message text, and None for
\* every other payload.
C35_ProcessWebhook ==
    probe.fn = "process_webhook" =>
        IF HasSenderAndText(probe.data)
        THEN /\ probe.value # NoMessage
             /\ probe.value.sender_id = probe.data.sender[1]
             /\ probe.value.message = probe.data.text
        ELSE probe.value = NoMessage

\* The steps of the last request's process_message that were call
Steps(call) ==
    { i \in DOMAIN probe.trace : probe.trace[i].call = call }

\* The steps among them whose POST the Graph API received and accepted
Done(call) == { i \in Steps(call) : probe.trace[i].ok }

\* C36: for a message handed to process_message, with the Graph API
\* accepting every request it receives, exactly one message reaches the
\* sender: the reply of handle_message, or the apology when it raised; the
\* message is seen-marked and the typing indicator turned on before it, and
\* the typing indicator is turned off after it.
C36_OneReplySent ==
    (probe.fn = "instagram_webhook" /\ probe.body = "processing"
        /\ probe.http = "ok") =>
        /\ Cardinality(Done("send_message")) = 1
        /\ \A i \in Done("send_message") :
              /\ probe.trace[i].text = IF last.reply.text = EXCEPTION
                                       THEN R_PROCESS_ERROR
                                       ELSE last.reply.text
              /\ \E j \in Done("mark_seen") : j < i
              /\ \E j \in Done("typing_on") : j < i
              /\ \E j \in Done("typing_off") : j > i

\* The request carried the signature of its payload under the app secret
Verified(request) ==
    request.signature = << HmacSha1(INSTAGRAM_APP_SECRET, request.data) >>

Handled == {"booking", "rescheduling", "cancellation", "inquiry"}

\* C40: a ConversationManager turn whose classifier label is none of
\* booking, rescheduling, cancellation, inquiry replies with the rephrase
\* prompt and calls no booking operation, and the next turn of a user whose
\* stored intent is such a label classifies the message again.
C40_UnknownIntentNotSticky ==
    [][(impl = "manager" /\ nturns' = nturns + 1) =>
          /\ (last'.label \in Labels \ Handled) =>
                /\ last'.reply.text = R_REPHRASE
                /\ \A i \in DOMAIN last'.calls :
                      last'.calls[i].op = "classify"
          /\ \A u \in Users :
                (/\ states[u] # NoState
                 /\ states[u].current_intent \in Labels \ Handled
                 /\ last'.user = u) => last'.label # "NOCALL"]_vars

\* ---------------------------------------------------------------- concurrent writes
\* Two or more calls were started together and have all completed
AllDone == Len(ops) >= 2 /\ \A i \in DOMAIN ops : ops[i].pc = "done"

\* No other call of the round is about the item of call i
Alone(i) == \A j \in DOMAIN ops \ {i} : ops[j].id # ops[i].id

\* C39: after the JSONStorage calls that were started together have all
\* completed, the stored list reflects each of them: an item created by one
\* call and touched by no other is stored, an item updated by one call and
\* touched by no other is stored as updated unless its id was not found,
\* and an item deleted by one call and touched by no other is not stored.
C39_NoWriteLost ==
    AllDone =>
        \A i \in DOMAIN ops :
            Alone(i) =>
                /\ ops[i].op = "create" =>
                      /\ ops[i].raised = ""
                      /\ JSONStorage_get(file, ops[i].id) = << NewItem(ops[i].id) >>
                /\ ops[i].op = "update" =>
                      /\ ops[i].raised \in {"", "ValueError: Item not found"}
                      /\ ops[i].raised = "" =>
                            JSONStorage_get(file, ops[i].id)
                                = << UpdatedItem(ops[i].id) >>
                /\ ops[i].op = "delete" =>
                      JSONStorage_get(file, ops[i].id) = << >>

\* ---------------------------------------------------------------- update frame
\* The check-in, check-out and room fields of booking b
PatchFields(b) ==
    [check_in_date |-> << b.check_in_date >>,
     check_out_date |-> << b.check_out_date >>,
     room |-> << b.rate, b.num_adults >>]

====
